---- MODULE Spec2Model ----
(***************************************************************************)
(* Real-time session engine of the collaborative whiteboard server:        *)
(* the /whiteboard Socket.io namespace with its room and board handlers,    *)
(* and the Stroke and Room stores they use.                                *)
(*                                                                         *)
(* Every handler body runs to its next `await` in one step.  The awaits    *)
(* on store calls (Room.findOne, Message.find, Stroke.forRoom) and on the  *)
(* enumeration of a room's sockets (fetchSockets) are suspension points:   *)
(* an in-flight handler is a record of `tasks` that a later step resumes.  *)
(* Stroke.create and Stroke.clearForRoom are issued without await: they    *)
(* sit in `pendingOps` until the store applies them, in any order.         *)
(***************************************************************************)
EXTENDS Integers, Sequences, FiniteSets, TLC

\* ------------------------------------------------------------------ bounds
\* Client events (join_room, leave_room, draw, erase, clear_board, a closed
\* connection) in one behaviour of each specification.
MaxEvents == 3
MaxEventsLong == 4
MaxStrokeEvents == 3
MaxGateEvents == 3
MaxRestEvents == 3
MaxPresenceEvents == 3
MaxScreenEvents == 4
MaxChatEvents == 3
MaxHistoryEvents == 3
MaxIdleEvents == 3
MaxWriteEvents == 3
MaxSanitiseEvents == 3
MaxRoomEvents == 4
MaxPayloadEvents == 3
MaxTrimEvents == 3
MaxNoticeEvents == 3
MaxJoinEvents == 3

\* ------------------------------------------------------- program constants
MAX_POINTS == 5000
MAX_TEXT == 1000
DEFAULT_MAX_PARTICIPANTS == 10
MAX_CHAT == 500
HISTORY_LIMIT == 50

\* ------------------------------------------------------------ the universe
Conns == {"s1", "s2"}
Users == {"u1", "u2"}

NoId == ""                 \* an absent roomId (undefined)
NullKey == <<>>            \* socket.data.roomKey = null
NoRole == "null"
ClientRoomIds == {"A", "B"}   \* roomId values a client sends

ALLOWED_TOOLS == {"pen", "eraser", "line", "rect", "ellipse", "text"}

\* String.prototype.toUpperCase on the room codes in use
toUpperCase(s) ==
    CASE s = "a" -> "A"
      [] s = "b" -> "B"
      [] OTHER -> s

\* `room:${roomId}`; an absent roomId prints as "undefined"
RoomKeyOf(roomId) == <<"room:", IF roomId = NoId THEN "undefined" ELSE roomId>>

VARIABLES
    roomDocs,     \* Room collection: roomId -> [isActive, host, participants, ..]
    connected,    \* socket -> whether the connection is open
    data,         \* socket -> socket.data {user, roomKey, roomId, role}
    inRooms,      \* socket -> the Socket.io rooms it is in (socket.rooms)
    tasks,        \* suspended handlers
    strokeDocs,   \* Stroke collection
    pendingOps,   \* store operations issued and not yet applied
    clock,        \* the time of the latest store operation issued
    budget,       \* client events the behaviour may still take
    accepted,     \* history: per room, createdAt of the strokes accepted since
                  \* the last clear_board the server processed
    noticed,      \* history: the rooms in which a clear_board notice was delivered
    last,         \* what the latest step emitted and issued
    userDocs,     \* User collection: user id -> [isActive], for the users on record
    sessions,     \* connection state kept for recovery: socket -> {data, rooms}
    handshake,    \* socket -> the credentials of its latest connection attempt
    messageDocs,  \* Message collection
    isSharing,    \* socket -> socket.data.isSharing
    announced     \* history: who was told that which socket shares its screen
                  \* in which room, and was not told since that it stopped

gateVars == <<userDocs, sessions, handshake>>
screenVars == <<isSharing, announced>>
vars == <<roomDocs, connected, data, inRooms, tasks, strokeDocs, pendingOps,
          clock, budget, accepted, noticed, last, gateVars, messageDocs, screenVars>>

\* socket.data.user.id
UserOf(c) == data[c].user

\* ---------------------------------------------------------- JS values
\* A value as `typeof` and the handlers' tests see it.
\* A string carries its text and, where only the length matters, its length.
Str(s) == [t |-> "string", s |-> s, n |-> 0]
StrOfLen(n) == [t |-> "string", s |-> "*", n |-> n]
Num(n) == [t |-> "number", s |-> "", n |-> n]
Undefined == [t |-> "undefined", s |-> "", n |-> 0]
\* An array of points is written as its runs: n equal elements in a row, each
\* an object {x, y} or null; `extra` names the fields an element has besides
\* x and y.
Run(n, x, y) == [n |-> n, isNull |-> FALSE, x |-> x, y |-> y, extra |-> {}]
Pt(x, y) == Run(1, x, y)
NullElement == [n |-> 1, isNull |-> TRUE, x |-> Undefined, y |-> Undefined, extra |-> {}]
Arr(runs) == [isArray |-> TRUE, items |-> runs]
NotArr == [isArray |-> FALSE, items |-> <<>>]

\* Array.prototype.length
RECURSIVE Length(_)
Length(runs) == IF runs = <<>> THEN 0 ELSE Head(runs).n + Length(Tail(runs))

\* A draw / erase payload: `t` is `typeof payload` ("null" for null),
\* `userId` the author the client names and `extra` the names of the fields
\* it has besides.
Payload(t, id, tool, color, size, points, text) ==
    [t |-> t, id |-> id, tool |-> tool, color |-> color, size |-> size,
     points |-> points, text |-> text, userId |-> Undefined, extra |-> {}]

\* A payload that is no object has none of the fields.
NonObject(t) == Payload(t, Undefined, Undefined, Undefined, Undefined, NotArr, Undefined)

GoodPoints == Arr(<<Pt(Num(0), Num(0)), Pt(Num(1), Num(1))>>)
PenPayload == Payload("object", Str("s1"), Str("pen"), Str("#000"), Num(4),
                      GoodPoints, Undefined)

\* The payloads clients send, by name.
PayloadOf(name) ==
    CASE name = "pen" -> PenPayload
      [] name = "eraser" -> [PenPayload EXCEPT !.tool = Str("eraser")]
      [] name = "text" -> [PenPayload EXCEPT !.tool = Str("text"), !.text = StrOfLen(2)]
      [] name = "longText" ->
            [PenPayload EXCEPT !.tool = Str("text"), !.text = StrOfLen(MAX_TEXT + 1)]
      [] name = "penWithText" -> [PenPayload EXCEPT !.text = StrOfLen(2)]
      [] name = "onePoint" -> [PenPayload EXCEPT !.points = Arr(<<Pt(Num(3), Num(-2))>>)]
      [] name = "maxPoints" ->
            [PenPayload EXCEPT !.points = Arr(<<Run(MAX_POINTS, Num(0), Num(0))>>)]
      [] name = "null" -> NonObject("null")
      [] name = "string" -> NonObject("string")
      [] name = "idNumber" -> [PenPayload EXCEPT !.id = Num(7)]
      [] name = "idMissing" -> [PenPayload EXCEPT !.id = Undefined]
      [] name = "toolUnknown" -> [PenPayload EXCEPT !.tool = Str("spray")]
      [] name = "toolMissing" -> [PenPayload EXCEPT !.tool = Undefined]
      [] name = "colorNumber" -> [PenPayload EXCEPT !.color = Num(0)]
      [] name = "sizeString" -> [PenPayload EXCEPT !.size = Str("4")]
      [] name = "sizeZero" -> [PenPayload EXCEPT !.size = Num(0)]
      [] name = "sizeNegative" -> [PenPayload EXCEPT !.size = Num(-1)]
      [] name = "pointsNotArray" -> [PenPayload EXCEPT !.points = NotArr]
      [] name = "pointsEmpty" -> [PenPayload EXCEPT !.points = Arr(<<>>)]
      [] name = "pointsTooMany" ->
            [PenPayload EXCEPT !.points = Arr(<<Run(MAX_POINTS, Num(0), Num(0)), Pt(Num(0), Num(0))>>)]
      [] name = "pointXString" ->
            [PenPayload EXCEPT !.points = Arr(<<Pt(Num(0), Num(0)), Pt(Str("1"), Num(1))>>)]
      [] name = "pointYMissing" ->
            [PenPayload EXCEPT !.points = Arr(<<Pt(Num(0), Undefined)>>)]
      [] name = "extraFields" ->
            [PenPayload EXCEPT !.userId = Str("u9"), !.extra = {"type", "layer"},
                               !.text = StrOfLen(2)]
      [] name = "pointExtra" ->
            [PenPayload EXCEPT !.points =
                Arr(<<Pt(Num(0), Num(0)),
                      [Pt(Num(1), Num(1)) EXCEPT !.extra = {"pressure"}]>>)]
      [] name = "pointNull" ->
            [PenPayload EXCEPT !.points = Arr(<<Pt(Num(0), Num(0)), NullElement>>)]

ValidNames == {"pen", "eraser", "text", "longText", "penWithText", "onePoint", "maxPoints"}
InvalidNames == {"null", "string", "idNumber", "idMissing", "toolUnknown", "toolMissing",
                 "colorNumber", "sizeString", "sizeZero", "sizeNegative",
                 "pointsNotArray", "pointsEmpty", "pointsTooMany", "pointXString",
                 "pointYMissing", "pointNull"}
AllPayloads == ValidNames \cup InvalidNames
\* Valid payloads that carry more than the canonical fields.
ExtraNames == {"extraFields", "pointExtra"}

NoError == "null"
\* Reading p.x of a null element throws; the handler's promise rejects and
\* the process logs the unhandled rejection.
TypeError == "TypeError"

\* The elements the loop of validateStroke stops at.
Offending(runs) ==
    {i \in 1..Len(runs) :
        runs[i].isNull \/ runs[i].x.t # "number" \/ runs[i].y.t # "number"}

\* validateStroke: the error string, or null; TypeError when it throws
validateStroke(payload) ==
    IF payload.t # "object" THEN "payload must be an object"
    ELSE IF payload.id.t # "string" THEN "id must be a string"
    ELSE IF ~(payload.tool.t = "string" /\ payload.tool.s \in ALLOWED_TOOLS)
        THEN "tool must be one of"
    ELSE IF payload.color.t # "string" THEN "color must be a string"
    ELSE IF payload.size.t # "number" \/ payload.size.n <= 0
        THEN "size must be a positive number"
    ELSE IF ~payload.points.isArray THEN "points must be an array"
    ELSE IF Length(payload.points.items) = 0 THEN "points must not be empty"
    ELSE IF Length(payload.points.items) > MAX_POINTS THEN "points exceeds max length"
    ELSE IF Offending(payload.points.items) # {}
        THEN LET first == CHOOSE i \in Offending(payload.points.items) :
                            \A j \in Offending(payload.points.items) : i <= j
             IN  IF payload.points.items[first].isNull THEN TypeError
                 ELSE "each point must have numeric x and y"
    ELSE NoError

\* String.prototype.slice(0, n): the first n characters
Slice(str, n) == [str EXCEPT !.n = IF str.n > n THEN n ELSE str.n]

\* sanitiseStroke: the canonical stroke; `text` only for a text tool
sanitiseStroke(payload, userId) ==
    LET base == [id |-> payload.id, type |-> "stroke", tool |-> payload.tool,
                 color |-> payload.color, size |-> payload.size,
                 points |-> payload.points.items, userId |-> userId]
    IN  IF payload.tool.s = "text" /\ payload.text.t = "string"
        THEN [id |-> base.id, type |-> base.type, tool |-> base.tool,
              color |-> base.color, size |-> base.size, points |-> base.points,
              text |-> Slice(payload.text, MAX_TEXT), userId |-> userId]
        ELSE base

\* erase: { ...payload, tool: 'eraser' }, an object whatever the payload is
Normalised(payload) == [payload EXCEPT !.tool = Str("eraser"), !.t = "object"]

\* ------------------------------------------------------------ Room store
RoomCodes == {"A", "B"}

\* Room documents as the REST layer left them: u1 hosts A with u2 as a
\* participant; u2 hosts B alone.
InitRoomDocs ==
    [r \in RoomCodes |->
        IF r = "A"
        THEN [isActive |-> TRUE, host |-> "u1",
              maxParticipants |-> DEFAULT_MAX_PARTICIPANTS,
              participants |-> <<[user |-> "u1", role |-> "host", joinedAt |-> 0],
                                 [user |-> "u2", role |-> "participant",
                                  joinedAt |-> 1]>>]
        ELSE [isActive |-> TRUE, host |-> "u2",
              maxParticipants |-> DEFAULT_MAX_PARTICIPANTS,
              participants |-> <<[user |-> "u2", role |-> "host", joinedAt |-> 0]>>]]

\* A lookup that also finds closed rooms.
FindAnyRoom(roomId) == {r \in DOMAIN roomDocs : r = toUpperCase(roomId)}
\* Room.findOne({ roomId, isActive: true }): the roomId of the filter goes
\* through the schema's uppercase setter.  The set is empty when none matches.
FindActiveRoom(roomId) ==
    {r \in DOMAIN roomDocs : r = toUpperCase(roomId) /\ roomDocs[r].isActive}

hasParticipant(room, userId) ==
    \E i \in 1..Len(room.participants) : room.participants[i].user = userId

getRole(room, userId) ==
    IF hasParticipant(room, userId)
    THEN LET i == CHOOSE j \in 1..Len(room.participants) :
                    /\ room.participants[j].user = userId
                    /\ \A k \in 1..(j - 1) : room.participants[k].user # userId
         IN  room.participants[i].role
    ELSE NoRole

\* ---------------------------------------------------------- Stroke store
\* The documents of S, ascending by createdAt.
RECURSIVE SortByCreatedAt(_)
SortByCreatedAt(S) ==
    IF S = {} THEN <<>>
    ELSE LET first == CHOOSE d \in S : \A e \in S : d.createdAt <= e.createdAt
         IN  <<first>> \o SortByCreatedAt(S \ {first})

\* Stroke.forRoom(roomId): find({roomId: roomId.toUpperCase()}).sort({createdAt: 1})
forRoom(roomId) ==
    SortByCreatedAt({d \in strokeDocs : d.roomId = toUpperCase(roomId)})

\* A deleteMany that matches no document.
clearNothing(docs, roomId) == docs
\* Stroke.clearForRoom(roomId): deleteMany({roomId: roomId.toUpperCase()})
clearForRoom(docs, roomId) == {d \in docs : d.roomId # toUpperCase(roomId)}

\* Stroke.create({roomId, stroke}): the document as the schema stores it
\* (roomId through the uppercase setter, createdAt from the timestamps option)
StrokeDoc(roomId, stroke, createdAt) ==
    [roomId |-> toUpperCase(roomId), stroke |-> stroke, createdAt |-> createdAt]

CreateOp(roomId, stroke, createdAt) ==
    [op |-> "create", roomId |-> roomId, createdAt |-> createdAt, stroke |-> stroke]
DeleteOp(roomId, issuedAt) ==
    [op |-> "delete", roomId |-> roomId, createdAt |-> issuedAt]

\* --------------------------------------------------------- Message store
\* .sort({sentAt: -1}): the documents of S, newest first
RECURSIVE SortBySentAtDesc(_)
SortBySentAtDesc(S) ==
    IF S = {} THEN <<>>
    ELSE LET first == CHOOSE d \in S : \A e \in S : d.sentAt >= e.sentAt
         IN  <<first>> \o SortBySentAtDesc(S \ {first})

\* A limit that cuts nothing.
limitNone(docs, n) == docs
\* .limit(n)
limit(docs, n) == IF Len(docs) <= n THEN docs ELSE SubSeq(docs, 1, n)

\* Array.prototype.reverse
reverse(seq) == [i \in 1..Len(seq) |-> seq[Len(seq) + 1 - i]]

\* Message.find({roomId}).sort({sentAt: -1}).limit(50), the filter through
\* the schema's uppercase setter
findMessages(roomId) ==
    limit(SortBySentAtDesc({d \in messageDocs : d.roomId = toUpperCase(roomId)}),
          HISTORY_LIMIT)

\* history.reverse().map(m => ({user, text, sentAt}))
chatHistory(roomId) ==
    LET found == reverse(findMessages(roomId))
    IN  [i \in 1..Len(found) |->
            [user |-> found[i].user, text |-> found[i].text, sentAt |-> found[i].sentAt]]

\* ------------------------------------------------------------- emitting
\* socket.emit(ev, body): to the socket itself, if still connected
ToSelf(c) == IF connected[c] THEN {c} ELSE {}
\* namespace.to(key).emit: every socket in the room
ToRoom(key) == {d \in Conns : key \in inRooms[d]}
\* A broadcast that does not leave the sender out.
ToRoomWithSender(key, c) == {d \in Conns : key \in inRooms[d]}
\* socket.to(key).emit: every socket in the room but the sender
ToRoomExceptSender(key, c) == {d \in Conns : key \in inRooms[d] /\ d # c}

\* The deliveries of the handler's n-th emit call.
Emit(n, recipients, ev, body) ==
    {[call |-> n, to |-> d, ev |-> ev, body |-> body] : d \in recipients}

\* What a step did: the event handled, its socket and argument, the
\* deliveries it made and the store operations it issued.  For a step that
\* sends canvas:restore, `restored` is the createdAt of the strokes sent and
\* `live` the createdAt of the strokes the socket was sent live since it
\* entered the room.
Step(op, by, arg, emits, issued) ==
    [op |-> op, by |-> by, arg |-> arg, emits |-> emits, issued |-> issued,
     restored |-> <<>>, live |-> {}, threw |-> FALSE]
\* A handler that raised: the promise of the async listener is rejected and
\* nothing was sent or written.
Raise(op, by, arg) == [Step(op, by, arg, {}, {}) EXCEPT !.threw = TRUE]
Quiet == Step("none", "none", "", {}, {})

\* namespace.in(key).fetchSockets(): the sockets of the room, here always in
\* the order of ConnOrder
ConnOrder == <<"s1", "s2">>
\* An enumeration of every socket of the namespace.
fetchEverySocket(rooms, key) == ConnOrder
fetchSockets(rooms, key) == SelectSeq(ConnOrder, LAMBDA d : key \in rooms[d])

\* The loop of buildPresenceList: a user is listed at its first socket
RECURSIVE ListUsers(_, _)
ListUsers(sockets, seen) ==
    IF sockets = <<>> THEN <<>>
    ELSE LET u == UserOf(Head(sockets))
         IN  IF u \in seen THEN ListUsers(Tail(sockets), seen)
             ELSE <<u>> \o ListUsers(Tail(sockets), seen \cup {u})

\* A presence list with one entry for every socket.
buildPresenceListPerSocket(rooms, key) ==
    [i \in 1..Len(fetchSockets(rooms, key)) |-> UserOf(fetchSockets(rooms, key)[i])]
\* buildPresenceList over the room as it will be after this step
buildPresenceList(rooms, key) == ListUsers(fetchSockets(rooms, key), {})

\* A suspended handler: where it stands and the locals it resumes with.
\* Handlers suspended alike are told apart by `seq`.
Task(c, kind, pc, roomId, key, role, online) ==
    [seq |-> 0, conn |-> c, kind |-> kind, pc |-> pc, roomId |-> roomId,
     key |-> key, role |-> role, online |-> online, live |-> {}]

\* The suspended handlers `ts` and one more, `t`.
Suspend(ts, t) ==
    LET free == {n \in 0..Cardinality(ts) : [t EXCEPT !.seq = n] \notin ts}
    IN  ts \cup {[t EXCEPT !.seq = CHOOSE n \in free : \A m \in free : n <= m]}

\* The credential of a connection attempt: how jwt.verify finds it, and the
\* subject it names.
TokenKinds == {"missing", "malformed", "wrongSignature", "expired", "valid"}
Subjects == Users \cup {"u0"}          \* u0 has no user record
Token(kind, sub) == [kind |-> kind, sub |-> sub]
Tokens == {Token(k, "u0") : k \in TokenKinds \ {"valid"}}
            \cup {Token("valid", u) : u \in Subjects}
NoToken == Token("missing", "u0")

\* A User document; the fields other than isActive only by name.
UserFields == {"name", "email", "avatar", "role", "isActive"}
UserDoc(active) ==
    [f \in UserFields |-> IF f = "isActive" THEN (IF active THEN "true" ELSE "false")
                          ELSE f]
\* Query.select(fields): a field left out reads as undefined
Select(doc, fields) == [f \in UserFields |-> IF f \in fields THEN doc[f] ELSE "undefined"]

\* A socket that never passed the gate has no session data.
NoUser == "none"
FreshData == [user |-> NoUser, roomKey |-> NullKey, roomId |-> NoId, role |-> NoRole]

\* One client event is taken from the budget.
Spend == budget > 0 /\ budget' = budget - 1

InitWith(events) ==
    /\ budget = events
    /\ roomDocs = InitRoomDocs
    /\ connected = [c \in Conns |-> TRUE]
    /\ data = [c \in Conns |->
                [user |-> IF c = "s1" THEN "u1" ELSE "u2",
                 roomKey |-> NullKey, roomId |-> NoId, role |-> NoRole]]
    /\ inRooms = [c \in Conns |-> {}]
    /\ tasks = {}
    /\ strokeDocs = {}
    /\ pendingOps = {}
    /\ clock = 0
    /\ accepted = [r \in RoomCodes |-> {}]
    /\ noticed = {}
    /\ last = Quiet
    /\ userDocs = [u \in Users |-> UserDoc(TRUE)]
    /\ sessions = [c \in {} |-> [rooms |-> {}]]
    /\ handshake = [c \in Conns |-> [token |-> Token("valid", IF c = "s1" THEN "u1" ELSE "u2"),
                                      pid |-> FALSE]]
    /\ messageDocs = {}
    /\ isSharing = [c \in Conns |-> FALSE]
    /\ announced = {}

\* ----------------------------------------------------------- join_room
\* join_room up to `await Room.findOne`
JoinRoom(c, roomId) ==
    /\ connected[c]
    /\ Spend
    /\ IF roomId = NoId
       THEN /\ last' = Step("join_room", c, roomId,
                            Emit(1, ToSelf(c), "room:error",
                                 [message |-> "roomId is required"]), {})
            /\ UNCHANGED tasks
       ELSE /\ tasks' = Suspend(tasks, Task(c, "join", "lookup", roomId, NullKey, NoRole, <<>>))
            /\ last' = Quiet
    /\ UNCHANGED <<roomDocs, connected, data, inRooms, strokeDocs, pendingOps,
                   clock, accepted, noticed>>
    /\ UNCHANGED <<gateVars, messageDocs, screenVars>>

\* join_room step 4 and the call of buildPresenceList in step 5: record the
\* session, enter the Socket.io room (a no-op on a closed socket), enumerate
\* the room.  `t` is the task to replace, `t2` the task with the role read.
AttachToRoom(t, t2, emits) ==
    LET c == t.conn
        roomKey == RoomKeyOf(t.roomId)
        rooms2 == IF connected[c] THEN [inRooms EXCEPT ![c] = @ \cup {roomKey}]
                  ELSE inRooms
    IN  /\ data' = [data EXCEPT ![c].roomKey = roomKey, ![c].roomId = t.roomId,
                                 ![c].role = t2.role]
        /\ inRooms' = rooms2
        /\ tasks' = Suspend(tasks \ {t},
                            [t2 EXCEPT !.pc = "history", !.key = roomKey,
                                       !.online = buildPresenceList(rooms2, roomKey),
                                       !.live = {}])
        /\ last' = IF emits = {} THEN Quiet
                   ELSE Step("join_room", c, t.roomId, emits, {})

\* join_room from the result of Room.findOne: steps 1 to 3, and step 4 when
\* the socket holds no room
JoinLookupDone(t) ==
    /\ t \in tasks /\ t.kind = "join" /\ t.pc = "lookup"
    /\ LET c == t.conn
           found == FindActiveRoom(t.roomId)
       IN  IF found = {}
           THEN /\ last' = Step("join_room", c, t.roomId,
                                Emit(1, ToSelf(c), "room:error",
                                     [message |-> "not found or closed"]), {})
                /\ tasks' = tasks \ {t}
                /\ UNCHANGED <<data, inRooms>>
           ELSE LET room == roomDocs[CHOOSE r \in found : TRUE]
                    t2 == [t EXCEPT !.role = getRole(room, UserOf(c))]
                IN  IF ~hasParticipant(room, UserOf(c))
                    THEN /\ last' = Step("join_room", c, t.roomId,
                                         Emit(1, ToSelf(c), "room:error",
                                              [message |-> "join via the API first"]), {})
                         /\ tasks' = tasks \ {t}
                         /\ UNCHANGED <<data, inRooms>>
                    ELSE IF data[c].roomKey # NullKey
                    THEN \* _leaveRoom up to its fetchSockets
                         LET held == data[c].roomKey
                             rooms2 == [inRooms EXCEPT ![c] = @ \ {held}]
                         IN  /\ inRooms' = rooms2
                             /\ tasks' = Suspend(tasks \ {t},
                                    [t2 EXCEPT !.pc = "leaving", !.key = held,
                                        !.online = buildPresenceList(rooms2, held)])
                             /\ last' = Quiet
                             /\ UNCHANGED data
                    ELSE AttachToRoom(t, t2, {})
    /\ UNCHANGED <<roomDocs, connected, strokeDocs, pendingOps, clock, budget, accepted, noticed>>
    /\ UNCHANGED <<gateVars, messageDocs, screenVars>>

\* join_room from the presence list of the room it left: the rest of
\* _leaveRoom, then step 4
JoinLeft(t) ==
    /\ t \in tasks /\ t.kind = "join" /\ t.pc = "leaving"
    /\ AttachToRoom(t, t,
            Emit(1, ToRoomExceptSender(t.key, t.conn), "user_left",
                 [userId |-> UserOf(t.conn), onlineUsers |-> t.online]))
    /\ UNCHANGED <<roomDocs, connected, strokeDocs, pendingOps, clock, budget, accepted, noticed>>
    /\ UNCHANGED <<gateVars, messageDocs, screenVars>>

\* join_room from the result of Message.find: step 6 up to `await Stroke.forRoom`
JoinHistory(t) ==
    /\ t \in tasks /\ t.kind = "join" /\ t.pc = "history"
    /\ tasks' = Suspend(tasks \ {t}, [t EXCEPT !.pc = "strokes"])
    /\ last' = Step("join_room", t.conn, t.roomId,
                    Emit(1, ToSelf(t.conn), "room:joined",
                         [roomId |-> t.roomId, role |-> t.role,
                          onlineCount |-> Len(t.online)])
                    \cup Emit(2, ToSelf(t.conn), "chat:history",
                              [messages |-> chatHistory(t.roomId)])
                    \cup Emit(3, ToSelf(t.conn), "presence:snapshot",
                              [onlineUsers |-> t.online]), {})
    /\ UNCHANGED <<roomDocs, connected, data, inRooms, strokeDocs, pendingOps,
                   clock, budget, accepted, noticed>>
    /\ UNCHANGED <<gateVars, messageDocs, screenVars>>

\* join_room from the result of Stroke.forRoom: canvas:restore and step 7
JoinRestore(t) ==
    /\ t \in tasks /\ t.kind = "join" /\ t.pc = "strokes"
    /\ LET docs == forRoom(t.roomId)
           step == Step("join_room", t.conn, t.roomId,
                        Emit(1, ToSelf(t.conn), "canvas:restore",
                             [strokes |-> [i \in 1..Len(docs) |-> docs[i].stroke]])
                        \cup Emit(2, ToRoomExceptSender(RoomKeyOf(t.roomId), t.conn),
                                  "user_joined",
                                  [user |-> UserOf(t.conn), onlineUsers |-> t.online]),
                        {})
       IN  last' = [step EXCEPT !.restored = [i \in 1..Len(docs) |-> docs[i].createdAt],
                                !.live = t.live]
    /\ tasks' = tasks \ {t}
    /\ UNCHANGED <<roomDocs, connected, data, inRooms, strokeDocs, pendingOps,
                   clock, budget, accepted, noticed>>
    /\ UNCHANGED <<gateVars, messageDocs, screenVars>>

\* ---------------------------------------------------------- leave_room
\* leave_room up to the fetchSockets of _leaveRoom
LeaveRoom(c, roomId) ==
    /\ connected[c]
    /\ Spend
    /\ LET roomKey == RoomKeyOf(roomId)
           rooms2 == [inRooms EXCEPT ![c] = @ \ {roomKey}]
       IN  /\ inRooms' = rooms2
           /\ tasks' = Suspend(tasks,
                    Task(c, "leave", "leaving", roomId, roomKey, NoRole,
                         buildPresenceList(rooms2, roomKey)))
    /\ last' = Quiet
    /\ UNCHANGED <<roomDocs, connected, data, strokeDocs, pendingOps, clock, accepted, noticed>>
    /\ UNCHANGED <<gateVars, messageDocs, screenVars>>

\* the rest of _leaveRoom; leave_room then clears the session's room
LeaveDone(t) ==
    /\ t \in tasks /\ t.kind \in {"leave", "disconnect"} /\ t.pc = "leaving"
    /\ tasks' = tasks \ {t}
    /\ data' = IF t.kind = "leave"
               THEN [data EXCEPT ![t.conn].roomKey = NullKey, ![t.conn].roomId = NoId]
               ELSE data
    /\ last' = Step(IF t.kind = "leave" THEN "leave_room" ELSE "disconnect",
                    t.conn, t.roomId,
                    Emit(1, ToRoomExceptSender(t.key, t.conn), "user_left",
                         [userId |-> UserOf(t.conn), onlineUsers |-> t.online]), {})
    /\ UNCHANGED <<roomDocs, connected, inRooms, strokeDocs, pendingOps, clock, budget, accepted, noticed>>
    /\ UNCHANGED <<gateVars, messageDocs, screenVars>>

\* ------------------------------------------------------- screen share
\* What the clients were told: socket c shares in room key / c stopped.
Announce(c, key, recipients) ==
    announced \cup {[to |-> d, host |-> c, key |-> key] : d \in recipients}
Retract(c, recipients) ==
    {a \in announced : ~(a.host = c /\ a.to \in recipients)}

\* The screen:stopped deliveries of _broadcastStopped
StoppedNotice(c) ==
    Emit(1, ToRoomExceptSender(data[c].roomKey, c), "screen:stopped",
         [hostSocketId |-> c])

\* _broadcastStopped: the flag is cleared and the room is told
BroadcastStopped(c) ==
    /\ isSharing' = [isSharing EXCEPT ![c] = FALSE]
    /\ announced' = Retract(c, ToRoomExceptSender(data[c].roomKey, c))

ScreenUnchanged ==
    UNCHANGED <<roomDocs, connected, data, inRooms, tasks, strokeDocs, pendingOps,
                clock, accepted, noticed, gateVars, messageDocs>>

\* A screen:start that marks the socket as sharing whether or not it holds
\* a room.
ScreenStartUnguarded(c) ==
    /\ connected[c]
    /\ Spend
    /\ last' = Step("screen:start", c, "",
                    Emit(1, ToRoomExceptSender(data[c].roomKey, c), "screen:available",
                         [hostSocketId |-> c, host |-> UserOf(c)]), {})
    /\ isSharing' = [isSharing EXCEPT ![c] = TRUE]
    /\ UNCHANGED announced
    /\ ScreenUnchanged

\* screen:start
ScreenStart(c) ==
    /\ connected[c]
    /\ Spend
    /\ IF data[c].roomKey = NullKey
       THEN /\ last' = Step("screen:start", c, "", {}, {})
            /\ UNCHANGED screenVars
       ELSE LET recipients == ToRoomExceptSender(data[c].roomKey, c)
            IN  /\ last' = Step("screen:start", c, "",
                                Emit(1, recipients, "screen:available",
                                     [hostSocketId |-> c, host |-> UserOf(c)]), {})
                /\ isSharing' = [isSharing EXCEPT ![c] = TRUE]
                /\ announced' = Announce(c, data[c].roomKey, recipients)
    /\ ScreenUnchanged

\* screen:stop
ScreenStop(c) ==
    /\ connected[c]
    /\ Spend
    /\ IF data[c].roomKey = NullKey
       THEN /\ last' = Step("screen:stop", c, "", {}, {})
            /\ UNCHANGED screenVars
       ELSE /\ BroadcastStopped(c)
            /\ last' = Step("screen:stop", c, "", StoppedNotice(c), {})
    /\ ScreenUnchanged

\* The room every socket is in from its connection on: its own id
SidRoom(c) == <<"", c>>
\* No `to` / `hostSocketId` in the payload, or an empty one
NoTarget == <<>>
\* What a client may name as the target of a relayed envelope
RelayTargets == {SidRoom(d) : d \in Conns} \cup {RoomKeyOf("A"), NoTarget}
RelayEvents == {"screen:request", "screen:offer", "screen:answer", "screen:ice"}

\* namespace.to(room): the open sockets that are in `room`
ToTarget(room) ==
    {d \in Conns : connected[d] /\ (room = SidRoom(d) \/ room \in inRooms[d])}

\* screen:request, screen:offer, screen:answer and screen:ice: `to` is the
\* target the client names and `given` tells whether the payload carries the
\* sdp / candidate (screen:request carries none and does not look for one)
ScreenRelay(c, ev, to, given) ==
    /\ connected[c]
    /\ Spend
    /\ ev \in RelayEvents
    /\ last' = IF to = NoTarget \/ (ev # "screen:request" /\ ~given)
               THEN Step(ev, c, to, {}, {})
               ELSE Step(ev, c, to, Emit(1, ToTarget(to), ev, [from |-> c]), {})
    /\ ScreenUnchanged
    /\ UNCHANGED screenVars

\* The connection closes: Socket.io keeps the socket's rooms for recovery
\* when the close is recoverable (transport close, ping timeout), takes the
\* socket out of its rooms, then the disconnect handler runs _leaveRoom up
\* to its fetchSockets and the disconnect handler of screenHandlers runs.
Close(c, recoverable) ==
    /\ connected[c]
    /\ Spend
    /\ connected' = [connected EXCEPT ![c] = FALSE]
    /\ sessions' = IF recoverable
                   THEN [d \in DOMAIN sessions \cup {c} |->
                            IF d = c THEN [rooms |-> inRooms[c]] ELSE sessions[d]]
                   ELSE sessions
    /\ LET rooms2 == [inRooms EXCEPT ![c] = {}]
       IN  /\ inRooms' = rooms2
           /\ tasks' = IF data[c].roomKey # NullKey
                       THEN Suspend(tasks,
                                Task(c, "disconnect", "leaving", data[c].roomId,
                                     data[c].roomKey, NoRole,
                                     buildPresenceList(rooms2, data[c].roomKey)))
                       ELSE tasks
    /\ IF isSharing[c] /\ data[c].roomKey # NullKey
       THEN /\ BroadcastStopped(c)
            /\ last' = Step("disconnect", c, data[c].roomId, StoppedNotice(c), {})
       ELSE /\ last' = Quiet
            /\ UNCHANGED screenVars
    /\ UNCHANGED <<roomDocs, data, strokeDocs, pendingOps, clock, accepted, noticed>>
    /\ UNCHANGED <<userDocs, handshake, messageDocs>>

\* The client closes the connection: nothing is kept for recovery.
Disconnect(c) == Close(c, FALSE)

\* The transport drops: the connection state is kept for recovery.
Drop(c) == Close(c, TRUE)

\* ------------------------------------------------------ connection gate
\* User.findById(id).select('name email avatar role'): the set is empty for null
findById(id) ==
    IF id \in DOMAIN userDocs
    THEN {Select(userDocs[id], {"name", "email", "avatar", "role"})}
    ELSE {}

\* next(new Error(...)): the attempt ends with connect_error
Reject(c, message) ==
    /\ last' = Step("connect", c, message,
                    Emit(1, {c}, "connect_error", [message |-> message]), {})
    /\ UNCHANGED <<connected, data, inRooms>>

\* A client attempts to connect socket c, with `token` and, when `pid`, the
\* private id of the session kept for c.  A recovered session skips the
\* middleware (connectionStateRecovery.skipMiddlewares); otherwise
\* socketAuthMiddleware runs up to `await User.findById`.
Connect(c, token, pid) ==
    /\ ~connected[c]
    /\ ~\E t \in tasks : t.conn = c
    /\ Spend
    /\ handshake' = [handshake EXCEPT ![c] = [token |-> token, pid |-> pid]]
    /\ IF pid /\ c \in DOMAIN sessions
       THEN /\ connected' = [connected EXCEPT ![c] = TRUE]
            /\ inRooms' = [inRooms EXCEPT ![c] = sessions[c].rooms]
            /\ last' = Step("connect", c, "recovered", {}, {})
            /\ UNCHANGED <<data, tasks>>
       ELSE IF token.kind = "missing"
       THEN Reject(c, "no token provided") /\ UNCHANGED tasks
       ELSE IF token.kind # "valid"
       THEN Reject(c, "invalid or expired token") /\ UNCHANGED tasks
       ELSE /\ tasks' = Suspend(tasks, Task(c, "auth", "findById", NoId, NullKey, NoRole, <<>>))
            /\ last' = Quiet
            /\ UNCHANGED <<connected, data, inRooms>>
    /\ UNCHANGED <<roomDocs, strokeDocs, pendingOps, clock, accepted, noticed,
                   userDocs, sessions, messageDocs, screenVars>>

\* socketAuthMiddleware from the result of User.findById
AuthLookupDone(t) ==
    /\ t \in tasks /\ t.kind = "auth"
    /\ tasks' = tasks \ {t}
    /\ LET c == t.conn
           id == handshake[c].token.sub
           found == findById(id)
       IN  IF found = {} \/ (\E user \in found : user.isActive = "false")
           THEN Reject(c, "user not found or inactive") /\ UNCHANGED isSharing
           ELSE /\ data' = [data EXCEPT ![c] = [FreshData EXCEPT !.user = id]]
                /\ isSharing' = [isSharing EXCEPT ![c] = FALSE]
                /\ connected' = [connected EXCEPT ![c] = TRUE]
                /\ last' = Step("connect", c, "accepted", {}, {})
                /\ UNCHANGED inRooms
    /\ UNCHANGED <<roomDocs, strokeDocs, pendingOps, clock, budget, accepted, noticed,
                   gateVars, messageDocs, announced>>

\* DELETE /api/users/:id by an admin: the account is deactivated
deleteUser(u) ==
    /\ u \in DOMAIN userDocs
    /\ Spend
    /\ userDocs' = [userDocs EXCEPT ![u] = UserDoc(FALSE)]
    /\ last' = Quiet
    /\ UNCHANGED <<roomDocs, connected, data, inRooms, tasks, strokeDocs, pendingOps,
                   clock, accepted, noticed, sessions, handshake, messageDocs,
                   screenVars>>

\* ------------------------------------------------------- board handlers
\* A socket that is sent a live stroke while its join_room is between
\* entering the room and canvas:restore has the stroke noted in that task.
NoteLive(recipients, roomKey, createdAt) ==
    {IF /\ t.conn \in recipients /\ t.kind = "join"
        /\ t.pc \in {"history", "strokes"} /\ t.key = roomKey
     THEN [t EXCEPT !.live = @ \cup {createdAt}]
     ELSE t : t \in tasks}

\* The body shared by draw and erase: `payload` is what validateStroke sees.
StrokeEvent(c, ev, name, payload) ==
    /\ connected[c]
    /\ Spend
    /\ IF data[c].roomKey = NullKey
       THEN /\ last' = Step(ev, c, name, {}, {})
            /\ UNCHANGED <<tasks, pendingOps, clock, accepted>>
       ELSE IF validateStroke(payload) = TypeError
       THEN /\ last' = Raise(ev, c, name)
            /\ UNCHANGED <<tasks, pendingOps, clock, accepted>>
       ELSE IF validateStroke(payload) # NoError
       THEN /\ last' = Step(ev, c, name,
                            LET err == validateStroke(payload)
                            IN  Emit(1, ToSelf(c), "board:error",
                                     [event |-> ev, message |-> err]),
                            {})
            /\ UNCHANGED <<tasks, pendingOps, clock, accepted>>
       ELSE LET stroke == sanitiseStroke(payload, UserOf(c))
                roomId == data[c].roomId
                write == CreateOp(roomId, stroke, clock + 1)
                peers == ToRoomExceptSender(data[c].roomKey, c)
            IN  /\ clock' = clock + 1
                /\ pendingOps' = pendingOps \cup {write}
                /\ accepted' = [accepted EXCEPT ![toUpperCase(roomId)] = @ \cup {clock + 1}]
                /\ tasks' = NoteLive(peers, data[c].roomKey, clock + 1)
                /\ last' = Step(ev, c, name, Emit(1, peers, ev, [stroke |-> stroke]),
                                {write})
    /\ UNCHANGED <<roomDocs, connected, data, inRooms, strokeDocs, noticed>>
    /\ UNCHANGED <<gateVars, messageDocs, screenVars>>

\* socket.on('draw')
Draw(c, name) == StrokeEvent(c, "draw", name, PayloadOf(name))

\* socket.on('erase')
Erase(c, name) == StrokeEvent(c, "erase", name, Normalised(PayloadOf(name)))

\* A guard that lets every role through.
AnyoneMayClear(c) == TRUE
\* the host-only guard of clear_board
MayClear(c) == data[c].role = "host"

\* socket.on('clear_board')
ClearBoard(c) ==
    /\ connected[c]
    /\ Spend
    /\ IF data[c].roomKey = NullKey
       THEN /\ last' = Step("clear_board", c, "", {}, {})
            /\ UNCHANGED <<pendingOps, clock, accepted, noticed>>
       ELSE IF ~MayClear(c)
       THEN /\ last' = Step("clear_board", c, "",
                            Emit(1, ToSelf(c), "board:error",
                                 [event |-> "clear_board", code |-> "FORBIDDEN"]), {})
            /\ UNCHANGED <<pendingOps, clock, accepted, noticed>>
       ELSE LET roomId == data[c].roomId
                delete == DeleteOp(roomId, clock + 1)
            IN  /\ clock' = clock + 1
                /\ pendingOps' = pendingOps \cup {delete}
                /\ accepted' = [accepted EXCEPT ![toUpperCase(roomId)] = {}]
                /\ noticed' = IF ToRoom(data[c].roomKey) = {} THEN noticed
                              ELSE noticed \cup {toUpperCase(roomId)}
                /\ last' = Step("clear_board", c, "",
                                Emit(1, ToRoom(data[c].roomKey), "clear_board",
                                     [clearedBy |-> UserOf(c)]),
                                {delete})
    /\ UNCHANGED <<roomDocs, connected, data, inRooms, tasks, strokeDocs>>
    /\ UNCHANGED <<gateVars, messageDocs, screenVars>>

\* A relay that reaches the sender as well.
RelayWithEcho(c, ev) ==
    /\ connected[c]
    /\ Spend
    /\ last' = IF data[c].roomKey = NullKey
               THEN Step(ev, c, "", {}, {})
               ELSE Step(ev, c, "",
                         Emit(1, ToRoom(data[c].roomKey), ev,
                              [userId |-> UserOf(c)]), {})
    /\ UNCHANGED <<roomDocs, connected, data, inRooms, tasks, strokeDocs, pendingOps,
                   clock, accepted, noticed>>
    /\ UNCHANGED <<gateVars, messageDocs, screenVars>>

\* socket.on('undo') and socket.on('redo'): relayed to the peers
Relay(c, ev) ==
    /\ connected[c]
    /\ Spend
    /\ last' = IF data[c].roomKey = NullKey
               THEN Step(ev, c, "", {}, {})
               ELSE Step(ev, c, "",
                         Emit(1, ToRoomExceptSender(data[c].roomKey, c), ev,
                              [userId |-> UserOf(c)]), {})
    /\ UNCHANGED <<roomDocs, connected, data, inRooms, tasks, strokeDocs, pendingOps,
                   clock, accepted, noticed>>
    /\ UNCHANGED <<gateVars, messageDocs, screenVars>>

Undo(c) == Relay(c, "undo")
Redo(c) == Relay(c, "redo")

\* ------------------------------------------------------- chat channel
\* A text: `lead` blanks, n characters that are not blank, `gap` blanks, m
\* characters that are not blank and `trail` blanks.  A text without a second
\* word has gap = 0 and m = 0, and one without any word has only `lead`.
Text(lead, n, gap, m, trail) ==
    [t |-> "string", lead |-> lead, n |-> n, gap |-> gap, m |-> m, trail |-> trail]
\* A chat text: `lead` blanks followed by n characters that are not blank.
ChatText(lead, n) == Text(lead, n, 0, 0, 0)
NoText == [t |-> "undefined", lead |-> 0, n |-> 0, gap |-> 0, m |-> 0, trail |-> 0]
NumberText == [t |-> "number", lead |-> 0, n |-> 0, gap |-> 0, m |-> 0, trail |-> 0]
\* String.prototype.length
length(text) == text.lead + text.n + text.gap + text.m + text.trail
\* The blanks a text starts and ends with
leadingBlanks(text) ==
    IF text.n > 0 THEN text.lead
    ELSE IF text.m > 0 THEN text.lead + text.gap
    ELSE length(text)
trailingBlanks(text) ==
    IF text.m > 0 THEN text.trail
    ELSE IF text.n > 0 THEN text.gap + text.trail
    ELSE length(text)
\* String.prototype.trim
trim(text) ==
    IF text.n = 0 /\ text.m = 0 THEN [text EXCEPT !.lead = 0, !.gap = 0, !.trail = 0]
    ELSE IF text.m = 0 THEN [text EXCEPT !.lead = 0, !.gap = 0, !.trail = 0]
    ELSE IF text.n = 0
    THEN [text EXCEPT !.lead = 0, !.n = text.m, !.gap = 0, !.m = 0, !.trail = 0]
    ELSE [text EXCEPT !.lead = 0, !.trail = 0]
\* String.prototype.slice(0, end)
slice(text, end) ==
    LET Min(x, y) == IF x < y THEN x ELSE y
        lead == Min(text.lead, end)
        n == Min(text.n, end - lead)
        gap == Min(text.gap, end - lead - n)
        m == Min(text.m, end - lead - n - gap)
        trail == Min(text.trail, end - lead - n - gap - m)
    IN  [text EXCEPT !.lead = lead, !.n = n, !.gap = gap, !.m = m, !.trail = trail]
\* The texts clients send: none, a number, "", blanks, " hi" and one that
\* is longer than the cut.
ChatTexts == {NoText, NumberText, ChatText(0, 0), ChatText(2, 0), ChatText(1, 2),
              ChatText(0, MAX_CHAT + 1)}
\* Texts with blanks in every place: "", blanks, " hi", " hi yo ", one longer
\* than the cut, one with a blank as its 500th character and one with two
\* blanks across the cut.
TrimTexts == {ChatText(0, 0), ChatText(2, 0), ChatText(1, 2), Text(1, 2, 1, 2, 1),
              ChatText(0, MAX_CHAT + 1), Text(0, MAX_CHAT - 1, 1, 1, 0),
              Text(1, MAX_CHAT - 1, 2, 3, 1)}
\* The roomId values clients send along: none, the held room's code, another
\* code in lower case, a number.
ChatRoomIds == {Undefined, Str("A"), Str("b"), Num(7)}
\* What `||` takes for true
Truthy(v) == (v.t = "string" /\ v.s # "") \/ (v.t = "number" /\ v.n # 0)

\* Message.create(doc): the schema's setters store roomId in upper case and
\* text trimmed
MessageDoc(roomId, user, text, sentAt) ==
    [roomId |-> toUpperCase(roomId), user |-> user, text |-> trim(text),
     sentAt |-> sentAt]
CreateMessageOp(roomId, user, text, sentAt) ==
    [op |-> "createMessage", roomId |-> roomId, createdAt |-> sentAt,
     user |-> user, text |-> text]

\* namespace.to(roomKey): the sockets that are sent the chat_message
ChatRecipients(c) == ToRoom(data[c].roomKey)

\* socket.on('send_message'): a text that is neither a string nor
\* undefined makes `text?.trim()` throw, and a truthy roomId that is no
\* string makes `.toUpperCase()` throw before anything is sent or written
SendMessage(c, roomId, text) ==
    /\ connected[c]
    /\ Spend
    /\ LET trimmed == slice(trim(text), MAX_CHAT)
           throws == Truthy(roomId) /\ roomId.t # "string"
           sentAt == clock + 1
           code == toUpperCase(IF Truthy(roomId) THEN roomId.s ELSE data[c].roomId)
           create == CreateMessageOp(code, UserOf(c), trimmed, sentAt)
       IN  IF text.t = "number"
           THEN /\ last' = Raise("send_message", c, "")
                /\ UNCHANGED <<pendingOps, clock>>
           ELSE IF text.t # "string" \/ length(trimmed) = 0 \/ data[c].roomKey = NullKey
           THEN /\ last' = Step("send_message", c, "", {}, {})
                /\ UNCHANGED <<pendingOps, clock>>
           ELSE IF throws
           THEN /\ last' = Raise("send_message", c, "")
                /\ UNCHANGED <<pendingOps, clock>>
           ELSE /\ clock' = sentAt
                /\ pendingOps' = pendingOps \cup {create}
                /\ last' = Step("send_message", c, "",
                                Emit(1, ChatRecipients(c), "chat_message",
                                     [user |-> UserOf(c), text |-> trimmed,
                                      sentAt |-> sentAt]),
                                {create})
    /\ UNCHANGED <<roomDocs, connected, data, inRooms, tasks, strokeDocs, accepted, noticed>>
    /\ UNCHANGED <<gateVars, messageDocs, screenVars>>

\* join_room, leave_room and send_message with a null payload: the parameter
\* pattern `({ ... } = {})` takes the default for undefined only, so
\* destructuring null throws before the body runs
NullPayloadEvents == {"join_room", "leave_room", "send_message"}
NullPayload(c, ev) ==
    /\ connected[c]
    /\ Spend
    /\ last' = Raise(ev, c, "null")
    /\ UNCHANGED <<roomDocs, connected, data, inRooms, tasks, strokeDocs, pendingOps,
                   clock, accepted, noticed>>
    /\ UNCHANGED <<gateVars, messageDocs, screenVars>>

\* socket.on('cursor:move')
CursorMove(c) ==
    /\ connected[c]
    /\ Spend
    /\ last' = IF data[c].roomKey = NullKey
               THEN Step("cursor:move", c, "", {}, {})
               ELSE Step("cursor:move", c, "",
                         Emit(1, ToRoomExceptSender(data[c].roomKey, c), "cursor:move",
                              [userId |-> UserOf(c)]), {})
    /\ UNCHANGED <<roomDocs, connected, data, inRooms, tasks, strokeDocs, pendingOps,
                   clock, accepted, noticed>>
    /\ UNCHANGED <<gateVars, messageDocs, screenVars>>

\* A file:share that is not sent back to the sender.
FileShareNoEcho(c, given) ==
    /\ connected[c]
    /\ Spend
    /\ last' = IF data[c].roomKey = NullKey \/ ~given
               THEN Step("file:share", c, "", {}, {})
               ELSE Step("file:share", c, "",
                         Emit(1, ToRoomExceptSender(data[c].roomKey, c), "file:shared",
                              [sharedBy |-> UserOf(c)]), {})
    /\ UNCHANGED <<roomDocs, connected, data, inRooms, tasks, strokeDocs, pendingOps,
                   clock, accepted, noticed>>
    /\ UNCHANGED <<gateVars, messageDocs, screenVars>>

\* socket.on('file:share'): `given` tells whether url, name and mimeType
\* are all there
FileShare(c, given) ==
    /\ connected[c]
    /\ Spend
    /\ last' = IF data[c].roomKey = NullKey \/ ~given
               THEN Step("file:share", c, "", {}, {})
               ELSE Step("file:share", c, "",
                         Emit(1, ToRoomExceptSender(data[c].roomKey, c), "file:shared",
                              [sharedBy |-> UserOf(c)])
                         \cup Emit(2, ToSelf(c), "file:shared",
                                   [sharedBy |-> UserOf(c)]), {})
    /\ UNCHANGED <<roomDocs, connected, data, inRooms, tasks, strokeDocs, pendingOps,
                   clock, accepted, noticed>>
    /\ UNCHANGED <<gateVars, messageDocs, screenVars>>

\* ---------------------------------------------------------------- store
\* The store applies an operation issued earlier.
StoreApply(o) ==
    /\ o \in pendingOps
    /\ pendingOps' = pendingOps \ {o}
    /\ strokeDocs' = IF o.op = "create"
                     THEN strokeDocs \cup {StrokeDoc(o.roomId, o.stroke, o.createdAt)}
                     ELSE IF o.op = "delete"
                     THEN clearForRoom(strokeDocs, o.roomId)
                     ELSE strokeDocs
    /\ messageDocs' = IF o.op = "createMessage"
                      THEN messageDocs \cup {MessageDoc(o.roomId, o.user, o.text, o.createdAt)}
                      ELSE messageDocs
    /\ last' = Quiet
    /\ UNCHANGED <<roomDocs, connected, data, inRooms, tasks, clock, budget, accepted, noticed>>
    /\ UNCHANGED <<gateVars, screenVars>>

\* A failed operation that is reported to the sockets.
StoreFailSurfaced(o) ==
    /\ o \in pendingOps
    /\ pendingOps' = pendingOps \ {o}
    /\ last' = Step("none", "none", "",
                    Emit(1, {d \in Conns : connected[d]}, "board:error",
                         [message |-> "write failed"]), {})
    /\ UNCHANGED <<roomDocs, connected, data, inRooms, tasks, strokeDocs, clock, budget, accepted, noticed>>
    /\ UNCHANGED <<gateVars, messageDocs, screenVars>>

\* The operation fails: the handler's .catch logs it and nothing else happens.
StoreFail(o) ==
    /\ o \in pendingOps
    /\ pendingOps' = pendingOps \ {o}
    /\ last' = Quiet
    /\ UNCHANGED <<roomDocs, connected, data, inRooms, tasks, strokeDocs, clock, budget, accepted, noticed>>
    /\ UNCHANGED <<gateVars, messageDocs, screenVars>>

\* ------------------------------------------------------------ REST layer
\* What the room controller leaves unchanged.
RestUnchanged ==
    /\ last' = Quiet
    /\ UNCHANGED <<connected, data, inRooms, tasks, strokeDocs, pendingOps, clock,
                   accepted, noticed, gateVars, messageDocs, screenVars>>

\* Array.prototype.filter
RECURSIVE Filter(_, _)
Filter(seq, userId) ==
    IF seq = <<>> THEN <<>>
    ELSE IF Head(seq).user # userId THEN <<Head(seq)>> \o Filter(Tail(seq), userId)
    ELSE Filter(Tail(seq), userId)

\* new Date(): later than every joinedAt the store holds
newDate ==
    LET stamps == UNION {{roomDocs[r].participants[i].joinedAt :
                              i \in 1..Len(roomDocs[r].participants)} :
                         r \in DOMAIN roomDocs}
    IN  IF stamps = {} THEN 0
        ELSE 1 + CHOOSE m \in stamps : \A n \in stamps : n <= m

\* The users that send REST requests, the codes generateRoomId can still draw
\* and the maxParticipants a request body carries (1 fails the schema's min).
RestUsers == Users \cup {"u3"}
FreshCodes == {"C"}
RestCodes == RoomCodes \cup FreshCodes
MaxParticipantsGiven == {1, 2, DEFAULT_MAX_PARTICIPANTS}
MIN_PARTICIPANTS == 2
MAX_PARTICIPANTS == 50

\* POST /api/rooms by user u: generateRoomId draws a code no room has, and
\* Room.create validates the document before it stores it.
createRoom(u, code, maxParticipants) ==
    /\ Spend
    /\ code \in FreshCodes \ DOMAIN roomDocs
    /\ roomDocs' =
         IF maxParticipants >= MIN_PARTICIPANTS /\ maxParticipants <= MAX_PARTICIPANTS
         THEN [r \in DOMAIN roomDocs \cup {code} |->
                  IF r = code
                  THEN [isActive |-> TRUE, host |-> u,
                        maxParticipants |-> maxParticipants,
                        participants |-> <<[user |-> u, role |-> "host",
                                            joinedAt |-> newDate]>>]
                  ELSE roomDocs[r]]
         ELSE roomDocs
    /\ RestUnchanged

\* POST /api/rooms/:roomId/join by user u
joinRoom(u, r) ==
    /\ Spend
    /\ r \in DOMAIN roomDocs
    /\ LET room == roomDocs[r]
       IN  roomDocs' =
             IF /\ room.isActive
                /\ ~hasParticipant(room, u)
                /\ Len(room.participants) < room.maxParticipants
             THEN [roomDocs EXCEPT ![r].participants =
                        Append(@, [user |-> u, role |-> "participant",
                                   joinedAt |-> newDate])]
             ELSE roomDocs
    /\ RestUnchanged

\* joinRoom with other requests in between: a request that has read the room
\* and passed the checks waits for its save with the entry it pushed.
Request(u, r, joinedAt) ==
    [seq |-> 0, kind |-> "joinRoom", user |-> u, roomId |-> r, joinedAt |-> joinedAt]

\* joinRoom from the request to `await room.save()`: the room is read and
\* checked as it is now
joinRoomFind(u, r) ==
    /\ Spend
    /\ r \in DOMAIN roomDocs
    /\ LET room == roomDocs[r]
       IN  tasks' =
             IF /\ room.isActive
                /\ ~hasParticipant(room, u)
                /\ Len(room.participants) < room.maxParticipants
             THEN Suspend(tasks, Request(u, r, newDate))
             ELSE tasks
    /\ last' = Quiet
    /\ UNCHANGED <<roomDocs, connected, data, inRooms, strokeDocs, pendingOps, clock,
                   accepted, noticed, gateVars, messageDocs, screenVars>>

\* room.save() of joinRoom: the pushed entry is sent as a $push, which the
\* store appends to the participants it holds now; a push is not guarded by
\* the document version
joinRoomSave(t) ==
    /\ t \in tasks /\ t.kind = "joinRoom"
    /\ tasks' = tasks \ {t}
    /\ roomDocs' = [roomDocs EXCEPT ![t.roomId].participants =
                        Append(@, [user |-> t.user, role |-> "participant",
                                   joinedAt |-> t.joinedAt])]
    /\ last' = Quiet
    /\ UNCHANGED <<connected, data, inRooms, strokeDocs, pendingOps, clock, budget,
                   accepted, noticed, gateVars, messageDocs, screenVars>>

\* A leave that removes the entry and hands the host role to nobody.
leaveRoomNoSuccessor(u, r) ==
    /\ Spend
    /\ r \in DOMAIN roomDocs
    /\ LET room == roomDocs[r]
           rest == Filter(room.participants, u)
       IN  roomDocs' =
             IF ~hasParticipant(room, u) THEN roomDocs
             ELSE [roomDocs EXCEPT ![r].participants = rest]
    /\ RestUnchanged

\* POST /api/rooms/:roomId/leave by user u: a leaving host hands the role to
\* the earliest remaining participant, or closes the room when it is the last
leaveRoom(u, r) ==
    /\ Spend
    /\ r \in DOMAIN roomDocs
    /\ LET room == roomDocs[r]
           isHost == getRole(room, u) = "host"
           rest == Filter(room.participants, u)
       IN  roomDocs' =
             IF ~hasParticipant(room, u) THEN roomDocs
             ELSE IF isHost /\ rest = <<>>
             THEN [roomDocs EXCEPT ![r].participants = rest, ![r].isActive = FALSE]
             ELSE IF isHost
             THEN [roomDocs EXCEPT ![r].participants = [rest EXCEPT ![1].role = "host"],
                                   ![r].host = rest[1].user]
             ELSE [roomDocs EXCEPT ![r].participants = rest]
    /\ RestUnchanged

\* DELETE /api/rooms/:roomId by user u
closeRoom(u, r) ==
    /\ Spend
    /\ r \in DOMAIN roomDocs
    /\ LET room == roomDocs[r]
       IN  roomDocs' = IF room.host = u /\ room.isActive
                       THEN [roomDocs EXCEPT ![r].isActive = FALSE]
                       ELSE roomDocs
    /\ RestUnchanged

\* ------------------------------------------------------- specification
\* The session engine: both sockets' room events, pen strokes, clear_board
\* and the store, in every interleaving of at most MaxEvents client events.
Next ==
    \/ \E c \in Conns, r \in ClientRoomIds \cup {NoId} : JoinRoom(c, r)
    \/ \E t \in tasks : JoinLookupDone(t)
    \/ \E t \in tasks : JoinLeft(t)
    \/ \E t \in tasks : JoinHistory(t)
    \/ \E t \in tasks : JoinRestore(t)
    \/ \E c \in Conns, r \in ClientRoomIds \cup {NoId} : LeaveRoom(c, r)
    \/ \E t \in tasks : LeaveDone(t)
    \/ \E c \in Conns : Disconnect(c)
    \/ \E c \in Conns : Draw(c, "pen")
    \/ \E c \in Conns : ClearBoard(c)
    \/ \E o \in pendingOps : StoreApply(o)
    \/ \E o \in pendingOps : StoreFail(o)

Init == InitWith(MaxEvents)
Spec == Init /\ [][Next]_vars

\* The same engine over one more client event.
InitLong == InitWith(MaxEventsLong)
SpecLong == InitLong /\ [][Next]_vars

\* The stroke channel: draw and erase with every payload, by sockets that
\* join room A (again and again, which runs the leave sequence too).
NextStroke ==
    \/ \E c \in Conns : JoinRoom(c, "A")
    \/ \E t \in tasks : JoinLookupDone(t)
    \/ \E t \in tasks : JoinLeft(t)
    \/ \E t \in tasks : JoinHistory(t)
    \/ \E t \in tasks : JoinRestore(t)
    \/ \E c \in Conns, p \in AllPayloads : Draw(c, p)
    \/ \E c \in Conns, p \in AllPayloads : Erase(c, p)
    \/ \E o \in pendingOps : StoreApply(o)

InitStroke == InitWith(MaxStrokeEvents)
SpecStroke == InitStroke /\ [][NextStroke]_vars

\* The connection gate: sockets that are not connected attempt to connect
\* with every kind of credential, drop, recover and join room A, while an
\* admin deactivates accounts.
InitGate ==
    /\ budget = MaxGateEvents
    /\ roomDocs = InitRoomDocs
    /\ connected = [c \in Conns |-> FALSE]
    /\ data = [c \in Conns |-> FreshData]
    /\ inRooms = [c \in Conns |-> {}]
    /\ tasks = {}
    /\ strokeDocs = {}
    /\ pendingOps = {}
    /\ clock = 0
    /\ accepted = [r \in RoomCodes |-> {}]
    /\ noticed = {}
    /\ last = Quiet
    /\ userDocs \in {[u \in Users |-> UserDoc(u = "u1" \/ active)] : active \in BOOLEAN}
    /\ sessions = [c \in {} |-> [rooms |-> {}]]
    /\ handshake = [c \in Conns |-> [token |-> NoToken, pid |-> FALSE]]
    /\ messageDocs = {}
    /\ isSharing = [c \in Conns |-> FALSE]
    /\ announced = {}

NextGate ==
    \/ \E c \in Conns, token \in Tokens, pid \in BOOLEAN : Connect(c, token, pid)
    \/ \E t \in tasks : AuthLookupDone(t)
    \/ \E c \in Conns : Drop(c)
    \/ \E c \in Conns : Disconnect(c)
    \/ \E u \in Users : deleteUser(u)
    \/ \E c \in Conns : JoinRoom(c, "A")
    \/ \E t \in tasks : JoinLookupDone(t)
    \/ \E t \in tasks : JoinLeft(t)
    \/ \E t \in tasks : JoinHistory(t)
    \/ \E t \in tasks : JoinRestore(t)
    \/ \E t \in tasks : LeaveDone(t)

SpecGate == InitGate /\ [][NextGate]_vars

\* The room store under the REST layer: users join, leave and close rooms
\* while their sockets join rooms (C is no room), draw and clear.
NextRest ==
    \/ \E u \in Users, r \in RoomCodes : joinRoom(u, r)
    \/ \E u \in Users, r \in RoomCodes : leaveRoom(u, r)
    \/ \E u \in Users, r \in RoomCodes : closeRoom(u, r)
    \/ \E c \in Conns, r \in ClientRoomIds \cup {"C"} : JoinRoom(c, r)
    \/ \E t \in tasks : JoinLookupDone(t)
    \/ \E t \in tasks : JoinLeft(t)
    \/ \E t \in tasks : JoinHistory(t)
    \/ \E t \in tasks : JoinRestore(t)
    \/ \E c \in Conns : Draw(c, "pen")
    \/ \E c \in Conns : ClearBoard(c)
    \/ \E o \in pendingOps : StoreApply(o)

InitRest == InitWith(MaxRestEvents)
SpecRest == InitRest /\ [][NextRest]_vars

\* Presence: the two sockets belong to one user or to two, and join, leave
\* and close in every interleaving.
InitPresence ==
    /\ budget = MaxPresenceEvents
    /\ roomDocs = InitRoomDocs
    /\ connected = [c \in Conns |-> TRUE]
    /\ data \in {[c \in Conns |-> [FreshData EXCEPT !.user = owner[c]]] :
                    owner \in [Conns -> Users]}
    /\ inRooms = [c \in Conns |-> {}]
    /\ tasks = {}
    /\ strokeDocs = {}
    /\ pendingOps = {}
    /\ clock = 0
    /\ accepted = [r \in RoomCodes |-> {}]
    /\ noticed = {}
    /\ last = Quiet
    /\ userDocs = [u \in Users |-> UserDoc(TRUE)]
    /\ sessions = [c \in {} |-> [rooms |-> {}]]
    /\ handshake = [c \in Conns |-> [token |-> Token("valid", data[c].user), pid |-> FALSE]]
    /\ messageDocs = {}
    /\ isSharing = [c \in Conns |-> FALSE]
    /\ announced = {}

NextPresence ==
    \/ \E c \in Conns, r \in ClientRoomIds : JoinRoom(c, r)
    \/ \E t \in tasks : JoinLookupDone(t)
    \/ \E t \in tasks : JoinLeft(t)
    \/ \E t \in tasks : JoinHistory(t)
    \/ \E t \in tasks : JoinRestore(t)
    \/ \E c \in Conns, r \in ClientRoomIds : LeaveRoom(c, r)
    \/ \E t \in tasks : LeaveDone(t)
    \/ \E c \in Conns : Disconnect(c)

SpecPresence == InitPresence /\ [][NextPresence]_vars

\* Screen sharing: the sockets join, leave, switch rooms and close while
\* they announce, stop and relay.
InitScreen == InitWith(MaxScreenEvents)

NextScreen ==
    \/ \E c \in Conns, r \in ClientRoomIds : JoinRoom(c, r)
    \/ \E t \in tasks : JoinLookupDone(t)
    \/ \E t \in tasks : JoinLeft(t)
    \/ \E t \in tasks : JoinHistory(t)
    \/ \E t \in tasks : JoinRestore(t)
    \/ \E c \in Conns : LeaveRoom(c, "A")
    \/ \E t \in tasks : LeaveDone(t)
    \/ \E c \in Conns : Disconnect(c)
    \/ \E c \in Conns : ScreenStart(c)
    \/ \E c \in Conns : ScreenStop(c)
    \/ \E c \in Conns, ev \in RelayEvents, to \in RelayTargets, given \in BOOLEAN :
            ScreenRelay(c, ev, to, given)

SpecScreen == InitScreen /\ [][NextScreen]_vars

\* The room events of joined sockets while the REST layer changes the rooms.
InitChat == InitWith(MaxChatEvents)

NextChat ==
    \/ \E u \in Users, r \in RoomCodes : leaveRoom(u, r)
    \/ \E u \in Users, r \in RoomCodes : closeRoom(u, r)
    \/ \E c \in Conns : JoinRoom(c, "A")
    \/ \E t \in tasks : JoinLookupDone(t)
    \/ \E t \in tasks : JoinLeft(t)
    \/ \E t \in tasks : JoinHistory(t)
    \/ \E t \in tasks : JoinRestore(t)
    \/ \E c \in Conns, r \in ClientRoomIds : LeaveRoom(c, r)
    \/ \E t \in tasks : LeaveDone(t)
    \/ \E c \in Conns, roomId \in ChatRoomIds, text \in ChatTexts :
            SendMessage(c, roomId, text)
    \/ \E c \in Conns : CursorMove(c)
    \/ \E c \in Conns, given \in BOOLEAN : FileShare(c, given)
    \/ \E c \in Conns : Draw(c, "pen")
    \/ \E c \in Conns : ClearBoard(c)
    \/ \E o \in pendingOps : StoreApply(o)

SpecChat == InitChat /\ [][NextChat]_vars

\* Chat history: the Message collection holds what earlier sessions wrote,
\* n messages of room A (sent at 1..n) and two of room B; the sockets join
\* and chat on top of it.
StoredCounts == {0, HISTORY_LIMIT - 1, HISTORY_LIMIT + 1}
StoredMessages(n) ==
    {[roomId |-> "A", user |-> IF k % 2 = 0 THEN "u1" ELSE "u2",
      text |-> ChatText(0, 2), sentAt |-> k] : k \in 1..n}
    \cup {[roomId |-> "B", user |-> "u2",
           text |-> ChatText(0, 3), sentAt |-> k] : k \in 1..2}

InitHistory ==
    /\ budget = MaxHistoryEvents
    /\ roomDocs = InitRoomDocs
    /\ connected = [c \in Conns |-> TRUE]
    /\ data = [c \in Conns |->
                [user |-> IF c = "s1" THEN "u1" ELSE "u2",
                 roomKey |-> NullKey, roomId |-> NoId, role |-> NoRole]]
    /\ inRooms = [c \in Conns |-> {}]
    /\ tasks = {}
    /\ strokeDocs = {}
    /\ pendingOps = {}
    /\ \E n \in StoredCounts : messageDocs = StoredMessages(n) /\ clock = n + 2
    /\ accepted = [r \in RoomCodes |-> {}]
    /\ noticed = {}
    /\ last = Quiet
    /\ userDocs = [u \in Users |-> UserDoc(TRUE)]
    /\ sessions = [c \in {} |-> [rooms |-> {}]]
    /\ handshake = [c \in Conns |-> [token |-> Token("valid", IF c = "s1" THEN "u1" ELSE "u2"),
                                      pid |-> FALSE]]
    /\ isSharing = [c \in Conns |-> FALSE]
    /\ announced = {}

NextHistory ==
    \/ \E c \in Conns, r \in {"A", "b"} : JoinRoom(c, r)
    \/ \E t \in tasks : JoinLookupDone(t)
    \/ \E t \in tasks : JoinLeft(t)
    \/ \E t \in tasks : JoinHistory(t)
    \/ \E t \in tasks : JoinRestore(t)
    \/ \E c \in Conns, roomId \in {Undefined, Str("b")} : SendMessage(c, roomId, ChatText(1, 2))
    \/ \E o \in pendingOps : StoreApply(o)
    \/ \E c \in Conns : Disconnect(c)
    \/ \E t \in tasks : LeaveDone(t)

SpecHistory == InitHistory /\ [][NextHistory]_vars

\* Sockets with and without a room send every event that needs a room.
InitIdle == InitWith(MaxIdleEvents)

NextIdle ==
    \/ \E c \in Conns : JoinRoom(c, "A")
    \/ \E t \in tasks : JoinLookupDone(t)
    \/ \E t \in tasks : JoinLeft(t)
    \/ \E t \in tasks : JoinHistory(t)
    \/ \E t \in tasks : JoinRestore(t)
    \/ \E c \in Conns, r \in ClientRoomIds : LeaveRoom(c, r)
    \/ \E t \in tasks : LeaveDone(t)
    \/ \E c \in Conns, name \in {"pen", "null"} : Draw(c, name)
    \/ \E c \in Conns, name \in {"pen", "null"} : Erase(c, name)
    \/ \E c \in Conns : ClearBoard(c)
    \/ \E c \in Conns : Undo(c)
    \/ \E c \in Conns : Redo(c)
    \/ \E c \in Conns : CursorMove(c)
    \/ \E c \in Conns : FileShare(c, TRUE)
    \/ \E c \in Conns : ScreenStart(c)
    \/ \E c \in Conns : ScreenStop(c)
    \/ \E o \in pendingOps : StoreApply(o)

SpecIdle == InitIdle /\ [][NextIdle]_vars

\* Writes that succeed, fail or stay pending while the sockets draw, erase
\* and chat in room A.
InitWrite == InitWith(MaxWriteEvents)

NextWrite ==
    \/ \E c \in Conns : JoinRoom(c, "A")
    \/ \E t \in tasks : JoinLookupDone(t)
    \/ \E t \in tasks : JoinLeft(t)
    \/ \E t \in tasks : JoinHistory(t)
    \/ \E t \in tasks : JoinRestore(t)
    \/ \E c \in Conns : Draw(c, "pen")
    \/ \E c \in Conns : Erase(c, "pen")
    \/ \E c \in Conns : SendMessage(c, Undefined, ChatText(1, 2))
    \/ \E o \in pendingOps : StoreApply(o)
    \/ \E o \in pendingOps : StoreFail(o)

SpecWrite == InitWrite /\ [][NextWrite]_vars

\* Sanitising: the sockets of room A draw and erase with payloads that
\* carry text, long text and fields outside the canonical shape.
InitSanitise == InitWith(MaxSanitiseEvents)

NextSanitise ==
    \/ \E c \in Conns : JoinRoom(c, "A")
    \/ \E t \in tasks : JoinLookupDone(t)
    \/ \E t \in tasks : JoinLeft(t)
    \/ \E t \in tasks : JoinHistory(t)
    \/ \E t \in tasks : JoinRestore(t)
    \/ \E c \in Conns, p \in {"text", "longText", "penWithText"} \cup ExtraNames :
            Draw(c, p)
    \/ \E c \in Conns, p \in {"text"} \cup ExtraNames : Erase(c, p)
    \/ \E o \in pendingOps : StoreApply(o)

SpecSanitise == InitSanitise /\ [][NextSanitise]_vars

\* The room collection under the REST requests of three users, taken one
\* after another: rooms are created, joined, left and closed.
InitRooms == InitWith(MaxRoomEvents)

NextRooms ==
    \/ \E u \in RestUsers, code \in FreshCodes, m \in MaxParticipantsGiven :
            createRoom(u, code, m)
    \/ \E u \in RestUsers, r \in RestCodes : joinRoom(u, r)
    \/ \E u \in RestUsers, r \in RestCodes : leaveRoom(u, r)
    \/ \E u \in RestUsers, r \in RestCodes : closeRoom(u, r)

SpecRooms == InitRooms /\ [][NextRooms]_vars

\* Payloads of every shape: the sockets join room A and send draw, erase,
\* send_message, join_room and leave_room with well-formed payloads, with
\* null, with a null point and with a text or roomId that is no string.
InitPayload == InitWith(MaxPayloadEvents)

NextPayload ==
    \/ \E c \in Conns : JoinRoom(c, "A")
    \/ \E t \in tasks : JoinLookupDone(t)
    \/ \E t \in tasks : JoinLeft(t)
    \/ \E t \in tasks : JoinHistory(t)
    \/ \E t \in tasks : JoinRestore(t)
    \/ \E c \in Conns : LeaveRoom(c, "A")
    \/ \E t \in tasks : LeaveDone(t)
    \/ \E c \in Conns, p \in {"pen", "null", "pointNull"} : Draw(c, p)
    \/ \E c \in Conns, p \in {"pen", "null", "pointNull"} : Erase(c, p)
    \/ \E c \in Conns, roomId \in ChatRoomIds,
          text \in {NoText, NumberText, ChatText(1, 2)} : SendMessage(c, roomId, text)
    \/ \E c \in Conns, ev \in NullPayloadEvents : NullPayload(c, ev)
    \/ \E o \in pendingOps : StoreApply(o)

SpecPayload == InitPayload /\ [][NextPayload]_vars

\* Trimming: the sockets of room A send texts with blanks before, inside
\* and after the words, and the store applies the writes.
InitTrim == InitWith(MaxTrimEvents)

NextTrim ==
    \/ \E c \in Conns : JoinRoom(c, "A")
    \/ \E t \in tasks : JoinLookupDone(t)
    \/ \E t \in tasks : JoinLeft(t)
    \/ \E t \in tasks : JoinHistory(t)
    \/ \E t \in tasks : JoinRestore(t)
    \/ \E c \in Conns, text \in TrimTexts : SendMessage(c, Undefined, text)
    \/ \E o \in pendingOps : StoreApply(o)

SpecTrim == InitTrim /\ [][NextTrim]_vars

\* The room collection under joinRoom requests that overlap: between the
\* read and the save of one, other requests read, save, leave and create.
InitJoin == InitWith(MaxJoinEvents)

NextJoin ==
    \/ \E u \in RestUsers, code \in FreshCodes, m \in MaxParticipantsGiven :
            createRoom(u, code, m)
    \/ \E u \in RestUsers, r \in RestCodes : joinRoomFind(u, r)
    \/ \E t \in tasks : joinRoomSave(t)
    \/ \E u \in RestUsers, r \in RestCodes : leaveRoom(u, r)

SpecJoin == InitJoin /\ [][NextJoin]_vars

\* Joining and going: the sockets join room A, leave it and disconnect, in
\* every interleaving with the handlers in flight.  A handler that waits
\* for the store or for fetchSockets is resumed in the end; what the clients
\* send is up to them.
InitNotice == InitWith(MaxNoticeEvents)

NextNotice ==
    \/ \E c \in Conns : JoinRoom(c, "A")
    \/ \E t \in tasks : JoinLookupDone(t)
    \/ \E t \in tasks : JoinLeft(t)
    \/ \E t \in tasks : JoinHistory(t)
    \/ \E t \in tasks : JoinRestore(t)
    \/ \E c \in Conns : LeaveRoom(c, "A")
    \/ \E t \in tasks : LeaveDone(t)
    \/ \E c \in Conns : Disconnect(c)

Resumed ==
    /\ WF_vars(\E t \in tasks : JoinLookupDone(t))
    /\ WF_vars(\E t \in tasks : JoinLeft(t))
    /\ WF_vars(\E t \in tasks : JoinHistory(t))
    /\ WF_vars(\E t \in tasks : JoinRestore(t))
    /\ WF_vars(\E t \in tasks : LeaveDone(t))

SpecNotice == InitNotice /\ [][NextNotice]_vars /\ Resumed

\* ================================================================ claims
\* What validateStroke is handed for the payload `name` of event `ev`.
Seen(ev, name) == IF ev = "erase" THEN Normalised(PayloadOf(name)) ELSE PayloadOf(name)

\* The deliveries of the latest step to socket d.
DeliveredTo(step, d) == {e \in step.emits : e.to = d}

\* The latest step handled a draw or erase whose payload is in `names`, sent
\* by a socket that holds a room.
StrokeStep(step, names) ==
    /\ step.op \in {"draw", "erase"}
    /\ step.arg \in names
    /\ data[step.by].roomKey # NullKey

\* C1: a draw or erase with a valid payload from a joined socket issues
\* exactly one Stroke write, for the socket's room, and delivers exactly one
\* event of the same name with the sanitised stroke to every other socket
\* in the room's group, and nothing to the sender.
C1_ValidStrokeOnce ==
    [][StrokeStep(last', ValidNames) =>
        LET c == last'.by
            key == data[c].roomKey
            stroke == sanitiseStroke(Seen(last'.op, last'.arg), UserOf(c))
        IN  /\ \E w \in pendingOps' \ pendingOps :
                    /\ pendingOps' = pendingOps \cup {w}
                    /\ last'.issued = {w}
                    /\ w.op = "create" /\ w.roomId = data[c].roomId
                    /\ w.stroke = stroke
            /\ \A d \in Conns :
                    Cardinality(DeliveredTo(last', d)) =
                        IF d # c /\ key \in inRooms[d] THEN 1 ELSE 0
            /\ \A e \in last'.emits : e.ev = last'.op /\ e.body = [stroke |-> stroke]
    ]_vars

\* A valid erase has reached the other socket of the room.
C1_Witness ==
    /\ StrokeStep(last, ValidNames)
    /\ last.op = "erase"
    /\ \E e \in last.emits : e.to # last.by
    /\ last.issued # {}

\* C2: a draw or erase from a joined socket whose payload breaks a
\* validation rule writes nothing, reaches no other socket, and sends the
\* sender exactly one board:error naming the event.
C2_InvalidStrokeRejected ==
    StrokeStep(last, InvalidNames) =>
        /\ last.issued = {}
        /\ \A e \in last.emits :
                e.to = last.by /\ e.ev = "board:error" /\ e.body.event = last.op
        /\ Cardinality(last.emits) = 1

\* The latest step sent canvas:restore to the socket that joined.
Restored(step) ==
    /\ step.op = "join_room"
    /\ \E e \in step.emits : e.ev = "canvas:restore" /\ e.to = step.by

\* The createdAt values of a restore, as a set.
RestoredSet(step) == {step.restored[i] : i \in 1..Len(step.restored)}

\* C3: the canvas:restore of a join holds exactly the Stroke documents
\* stored for the room that were accepted since its last clear, each once,
\* in ascending creation order.
C3_RestoreIsAccepted ==
    Restored(last) =>
        LET R == toUpperCase(last.arg)
            persisted == {d.createdAt : d \in {x \in strokeDocs : x.roomId = R}}
        IN  /\ RestoredSet(last) = persisted \cap accepted[R]
            /\ \A i, j \in 1..Len(last.restored) :
                    i < j => last.restored[i] < last.restored[j]

\* The live room events of the board.
LiveEvents == {"draw", "erase", "clear_board"}

\* C4: no live room event of another member is delivered to a socket whose
\* join_room has put it into the room's group and has not yet sent
\* canvas:restore.
C4_NoLiveBeforeRestore ==
    \A e \in last.emits :
        (e.ev \in LiveEvents /\ e.to # last.by) =>
            ~\E t \in tasks :
                /\ t.kind = "join" /\ t.conn = e.to
                /\ t.pc \in {"history", "strokes"}
                /\ t.key = data[last.by].roomKey

\* C5: no stroke reaches a joining socket both in its canvas:restore and
\* as a live draw or erase.
C5_NoStrokeTwice ==
    Restored(last) => RestoredSet(last) \cap last.live = {}

\* C6: a socket is in at most one room group at any moment.
C6_AtMostOneRoom ==
    \A c \in Conns : Cardinality(inRooms[c]) <= 1

\* C7: once a leave_room has been processed and the session's roomKey is
\* null, the socket is in no room group, whatever roomId the event carried.
C7_LeftMeansOut ==
    (last.op = "leave_room" /\ data[last.by].roomKey = NullKey) =>
        inRooms[last.by] = {}

\* The latest step handled a clear_board from a socket that holds a room.
ClearStep(step) ==
    /\ step.op = "clear_board"
    /\ data[step.by].roomKey # NullKey

\* C8: clear_board from a joined socket whose role is not host deletes
\* nothing, reaches no other socket, changes no session state and sends the
\* sender exactly one FORBIDDEN board:error.
C8_NonHostClearRefused ==
    [][(ClearStep(last') /\ data[last'.by].role # "host") =>
        /\ strokeDocs' = strokeDocs /\ pendingOps' = pendingOps
        /\ last'.issued = {}
        /\ data' = data /\ inRooms' = inRooms /\ tasks' = tasks
        /\ accepted' = accepted
        /\ Cardinality(last'.emits) = 1
        /\ \A e \in last'.emits :
                /\ e.to = last'.by /\ e.ev = "board:error"
                /\ e.body.code = "FORBIDDEN" /\ e.body.event = "clear_board"
    ]_vars

\* A participant's clear_board was refused while the room had a stroke stored.
C8_Witness ==
    /\ ClearStep(last) /\ data[last.by].role = "participant"
    /\ \E e \in last.emits : e.to = last.by
    /\ \E d \in strokeDocs : d.roomId = toUpperCase(data[last.by].roomId)

\* C9: clear_board from a joined socket whose role is host issues one
\* delete for its room, which leaves no Stroke document of the room (and
\* every document of other rooms) when the store applies it, and delivers
\* exactly one clear_board notice to every socket in the room's group, the
\* issuer included.
C9_HostClearDeletesAndNotifies ==
    [][/\ (ClearStep(last') /\ data[last'.by].role = "host") =>
            LET c == last'.by
            IN  /\ \E w \in pendingOps' \ pendingOps :
                        /\ pendingOps' = pendingOps \cup {w}
                        /\ last'.issued = {w}
                        /\ w.op = "delete" /\ w.roomId = data[c].roomId
                /\ \A d \in Conns :
                        Cardinality(DeliveredTo(last', d)) =
                            IF data[c].roomKey \in inRooms[d] THEN 1 ELSE 0
                /\ \A e \in last'.emits :
                        e.ev = "clear_board" /\ e.body.clearedBy = UserOf(c)
       /\ \A o \in pendingOps :
            (o.op = "delete" /\ StoreApply(o)) =>
                strokeDocs' = {d \in strokeDocs : d.roomId # toUpperCase(o.roomId)}
    ]_vars

\* The host cleared a room that had a stroke stored, and was sent the notice.
C9_Witness ==
    /\ ClearStep(last) /\ data[last.by].role = "host"
    /\ \E e \in last.emits : e.to = last.by /\ e.ev = "clear_board"
    /\ \E d \in strokeDocs : d.roomId = toUpperCase(data[last.by].roomId)
    /\ \E o \in pendingOps : o.op = "delete"

\* C10: once a clear_board notice has been delivered in a room, no
\* canvas:restore of that room holds a stroke accepted before the clear.
C10_NoStrokeFromBeforeClear ==
    (Restored(last) /\ toUpperCase(last.arg) \in noticed) =>
        RestoredSet(last) \subseteq accepted[toUpperCase(last.arg)]

\* Socket c passes the gate in this step: its connection event fires.
Admitted(c) == ~connected[c] /\ connected'[c]

\* C11: a connection attempt whose token is missing, malformed, wrongly
\* signed, expired or names no user record never has its connection event
\* fire.
C11_BadTokenNeverAdmitted ==
    [][\A c \in Conns :
        Admitted(c) =>
            /\ handshake'[c].token.kind = "valid"
            /\ handshake'[c].token.sub \in DOMAIN userDocs
    ]_vars

\* C12: a connection attempt with a valid token whose user record is
\* inactive never has its connection event fire.
C12_InactiveNeverAdmitted ==
    [][\A c \in Conns :
        (Admitted(c) /\ handshake'[c].token.kind = "valid"
            /\ handshake'[c].token.sub \in DOMAIN userDocs) =>
                userDocs[handshake'[c].token.sub].isActive # "false"
    ]_vars

\* The room the suspended join_room names does not exist, is closed, or
\* does not list the socket's user among its participants.
Denied(t) ==
    LET R == toUpperCase(t.roomId)
    IN  \/ R \notin RoomCodes
        \/ ~roomDocs[R].isActive
        \/ \A i \in 1..Len(roomDocs[R].participants) :
                roomDocs[R].participants[i].user # data[t.conn].user

\* C13: a join_room naming a room that does not exist, is inactive, or does
\* not list the caller as a participant sends the requester exactly one
\* room:error, sends nothing to anyone else, and leaves socket.data and the
\* socket's groups as they were.
C13_DeniedJoinChangesNothing ==
    [][\A t \in tasks :
        (t.kind = "join" /\ t.pc = "lookup" /\ Denied(t) /\ JoinLookupDone(t)) =>
            /\ Cardinality(last'.emits) = 1
            /\ \A e \in last'.emits : e.to = t.conn /\ e.ev = "room:error"
            /\ data' = data /\ inRooms' = inRooms
            /\ last'.issued = {} /\ pendingOps' = pendingOps
    ]_vars

\* A socket that holds a room was refused a room that has been closed.
C13_Witness ==
    /\ last.op = "join_room"
    /\ \E e \in last.emits : e.ev = "room:error" /\ e.to = last.by
    /\ toUpperCase(last.arg) \in RoomCodes
    /\ ~roomDocs[toUpperCase(last.arg)].isActive
    /\ data[last.by].roomKey # NullKey /\ inRooms[last.by] # {}

\* The events that carry a presence list.
PresenceEvents == {"presence:snapshot", "user_joined", "user_left"}

\* The users of the sockets that are in group `key` when this step ends.
UsersInGroup(key) == {data'[d].user : d \in {e \in Conns : key \in inRooms'[e]}}

ConnectedTo(key) == {data[d].user : d \in {e \in Conns : key \in inRooms[e]}}

\* C15: presence never drifts: when no join_room, leave_room or disconnect
\* handler is in flight, a presence list just delivered to a socket of the
\* room is the set of users now connected to the room.
C15_PresenceNeverDrifts ==
    tasks = {} =>
        \A e \in last.emits :
            (e.ev \in PresenceEvents /\ RoomKeyOf(last.arg) \in inRooms[e.to]) =>
                {e.body.onlineUsers[i] : i \in 1..Len(e.body.onlineUsers)}
                    = ConnectedTo(RoomKeyOf(last.arg))

\* C16: a relayed screen:request, screen:offer, screen:answer or screen:ice
\* reaches at most one socket, the one whose id is the target the sender
\* named, with `from` the sender's id, whatever the target named.
C16_RelayOnlyToTarget ==
    last.op \in RelayEvents =>
        /\ Cardinality(last.emits) <= 1
        /\ \A e \in last.emits : SidRoom(e.to) = last.arg /\ e.body.from = last.by

\* C17: with no handler in flight, no socket in a room still has a socket
\* announced to it as sharing in that room that is no longer in the room.
C17_StoppedFollowsAvailable ==
    tasks = {} =>
        \A a \in announced :
            a.key \in inRooms[a.to] => a.key \in inRooms[a.host]

\* C18: a clear_board notice goes out in a room only when the issuer's user
\* is the room's host in the room store as the event is processed.
C18_ClearOnlyByStoreHost ==
    (last.op = "clear_board" /\ \E e \in last.emits : e.ev = "clear_board") =>
        LET R == toUpperCase(data[last.by].roomId)
        IN  /\ R \in RoomCodes
            /\ getRole(roomDocs[R], UserOf(last.by)) = "host"

\* The events of a room that C19 names.
RoomEvents == {"draw", "erase", "clear_board", "chat_message", "file:shared",
               "cursor:move"}

\* C19: every draw, erase, clear_board, chat_message, file:shared and
\* cursor:move delivered in a room comes from a socket whose user is, as the
\* event is processed, a recorded participant of that room and the room is
\* active.
C19_EventsFromParticipants ==
    (\E e \in last.emits : e.ev \in RoomEvents) =>
        LET R == toUpperCase(data[last.by].roomId)
        IN  /\ R \in RoomCodes
            /\ roomDocs[R].isActive
            /\ hasParticipant(roomDocs[R], UserOf(last.by))

\* C20: a send_message whose text is not empty after trimming, from a socket
\* that holds a room and is in its group, delivers exactly one chat_message
\* with the sender's user and the server's time to every socket of the
\* group, the sender included, and issues exactly one Message write; from a
\* socket that holds no room it delivers and writes nothing.
C20_ChatOnceToAll ==
    [][\A c \in Conns, roomId \in ChatRoomIds, text \in ChatTexts :
        SendMessage(c, roomId, text) =>
            /\ (/\ text.t = "string" /\ trim(text).n > 0
                /\ data[c].roomKey # NullKey /\ data[c].roomKey \in inRooms[c]) =>
                    /\ \A d \in Conns :
                            Cardinality({e \in last'.emits : e.to = d})
                                = IF data[c].roomKey \in inRooms[d] THEN 1 ELSE 0
                    /\ \E e \in last'.emits : e.to = c
                    /\ \A e \in last'.emits :
                            /\ e.ev = "chat_message"
                            /\ e.body.user = UserOf(c)
                            /\ e.body.sentAt = clock'
                    /\ clock' > clock
                    /\ Cardinality(last'.issued) = 1
                    /\ \A o \in last'.issued : o.op = "createMessage"
                    /\ pendingOps' = pendingOps \cup last'.issued
            /\ data[c].roomKey = NullKey =>
                    /\ last'.emits = {} /\ last'.issued = {}
                    /\ pendingOps' = pendingOps
    ]_vars

\* The persisted messages of the room a join_room step names.
MessagesOf(roomId) == {d \in messageDocs : d.roomId = toUpperCase(roomId)}

\* C21: the chat:history sent on join has at most 50 messages, ordered
\* oldest first, all of them persisted messages of the joined room, as many
\* as there are up to 50, and none of the room's messages left out is more
\* recent than one that is sent.
C21_HistoryIsLast50 ==
    \A e \in last.emits :
        e.ev = "chat:history" =>
            LET h == e.body.messages
                sent == {h[i].sentAt : i \in 1..Len(h)}
                all == MessagesOf(last.arg)
            IN  /\ Len(h) <= 50
                /\ \A i \in 1..(Len(h) - 1) : h[i].sentAt < h[i + 1].sentAt
                /\ \A i \in 1..Len(h) :
                        \E d \in all : /\ d.sentAt = h[i].sentAt
                                       /\ d.user = h[i].user /\ d.text = h[i].text
                /\ Len(h) = IF Cardinality(all) > 50 THEN 50 ELSE Cardinality(all)
                /\ \A d \in all :
                        d.sentAt \notin sent => \A k \in sent : d.sentAt < k

\* A join was sent the history of a room that holds more than 50 messages,
\* one of them written in this run.
C21_Witness ==
    \E e \in last.emits :
        /\ e.ev = "chat:history"
        /\ Len(e.body.messages) = 50
        /\ Cardinality(MessagesOf(last.arg)) > 51
        /\ e.body.messages[50].sentAt = clock
        /\ e.body.messages[1].sentAt > 1

\* The other socket closed while it held the room of key `key` alone: its
\* disconnect handler found nobody left in the group.
SoleMemberGone(key) ==
    \E t \in tasks : /\ t.kind = "disconnect" /\ t.key = key
                     /\ t.online = <<>> /\ ~connected[t.conn]

\* The presence:snapshot and chat:history deliveries of the latest step.
SnapshotsSent == {e \in last.emits : e.ev = "presence:snapshot"}
HistoriesSent == {e \in last.emits : e.ev = "chat:history"}

\* C22 as stated: the join that follows the disconnect of a room's sole
\* member is sent an empty chat history and a presence snapshot with no
\* user but its own.
C22_NextJoinSeesEmptyRoom ==
    (SnapshotsSent # {} /\ SoleMemberGone(RoomKeyOf(last.arg))) =>
        /\ \A e \in HistoriesSent : e.body.messages = <<>>
        /\ \A e \in SnapshotsSent :
                \A i \in 1..Len(e.body.onlineUsers) :
                    e.body.onlineUsers[i] = UserOf(e.to)

\* C22 amended: a socket that enters a group holding no socket enumerates
\* no user but its own, and its join sends it that list as presence:snapshot
\* together with the room's persisted chat history, which the disconnect
\* of earlier members does not empty.
C22_NextJoinSeesOnlyItself ==
    [][/\ \A t \in tasks' \ tasks :
            (t.kind = "join" /\ t.pc = "history"
             /\ \A d \in Conns : t.key \notin inRooms[d]) =>
                \A i \in 1..Len(t.online) : t.online[i] = UserOf(t.conn)
       /\ \A t \in tasks \ tasks' :
            (t.kind = "join" /\ t.pc = "history") =>
                /\ \A e \in last'.emits :
                        /\ e.ev = "presence:snapshot" => e.body.onlineUsers = t.online
                        /\ e.ev = "chat:history" =>
                                Len(e.body.messages)
                                    = IF Cardinality(MessagesOf(t.roomId)) > 50 THEN 50
                                      ELSE Cardinality(MessagesOf(t.roomId))
    ]_vars

\* The join after the sole member's disconnect was sent itself as the only
\* user present and a chat history that is not empty.
C22_Witness ==
    /\ SoleMemberGone(RoomKeyOf(last.arg))
    /\ \E e \in SnapshotsSent : e.body.onlineUsers = <<UserOf(e.to)>>
    /\ \E e \in HistoriesSent : e.body.messages # <<>>

\* Socket c sends one of the events that need a room.
NeedsRoom(c) ==
    \/ \E name \in AllPayloads : Draw(c, name) \/ Erase(c, name)
    \/ ClearBoard(c) \/ Undo(c) \/ Redo(c) \/ CursorMove(c)
    \/ \E given \in BOOLEAN : FileShare(c, given)
    \/ ScreenStart(c) \/ ScreenStop(c)

\* C23: draw, erase, clear_board, undo, redo, cursor:move, file:share,
\* screen:start and screen:stop of a socket that holds no room deliver
\* nothing to anyone, issue no store operation and change no session state.
C23_NoRoomNoEffect ==
    [][\A c \in Conns :
        (data[c].roomKey = NullKey /\ NeedsRoom(c)) =>
            /\ last'.emits = {} /\ last'.issued = {}
            /\ pendingOps' = pendingOps
            /\ strokeDocs' = strokeDocs /\ messageDocs' = messageDocs
            /\ data' = data /\ inRooms' = inRooms
            /\ isSharing' = isSharing /\ announced' = announced
            /\ tasks' = tasks /\ roomDocs' = roomDocs
    ]_vars

\* A socket that holds no room sent an event that needs a room while the
\* other socket is in room A, and nothing was delivered.
C23_Witness ==
    /\ last.op \in {"draw", "erase", "clear_board", "undo", "redo", "cursor:move",
                    "file:share", "screen:start", "screen:stop"}
    /\ last.emits = {}
    /\ data[last.by].roomKey = NullKey
    /\ \E d \in Conns \ {last.by} :
            RoomKeyOf("A") \in inRooms[d] /\ data[d].roomKey = RoomKeyOf("A")

\* The Stroke and Message writes this step issues.
WritesIssued == {o \in pendingOps' \ pendingOps : o.op \in {"create", "createMessage"}}

\* C24: the step that issues a Stroke or Message write delivers the draw,
\* erase or chat_message it belongs to, to the peers in the room (to all of
\* the room for chat) before the write completes; and a write that fails
\* delivers nothing to anyone and changes nothing but the pending write.
C24_WriteNeverBlocksOrSurfaces ==
    [][/\ \A o \in WritesIssued :
            LET by == last'.by
                ev == IF o.op = "create" THEN last'.op ELSE "chat_message"
                group == {d \in Conns : data[by].roomKey \in inRooms[d]}
                to == IF o.op = "create" THEN group \ {by} ELSE group
            IN  /\ last'.op \in {"draw", "erase", "send_message"}
                /\ last'.issued = {o}
                /\ \A d \in Conns :
                        Cardinality({e \in last'.emits : e.to = d /\ e.ev = ev})
                            = IF d \in to THEN 1 ELSE 0
                /\ \A e \in last'.emits : e.ev = ev
       /\ \A o \in pendingOps :
            StoreFail(o) =>
                /\ last'.emits = {}
                /\ data' = data /\ inRooms' = inRooms /\ connected' = connected
                /\ tasks' = tasks
                /\ strokeDocs' = strokeDocs /\ messageDocs' = messageDocs
    ]_vars

\* Both sockets are in room A, a stroke was accepted there and its write
\* has failed: nothing is stored, nothing is pending, nothing was sent.
C24_Witness ==
    /\ accepted["A"] # {}
    /\ pendingOps = {} /\ strokeDocs = {} /\ messageDocs = {}
    /\ last = Quiet
    /\ \A d \in Conns : RoomKeyOf("A") \in inRooms[d]

\* The canonical shape: the fields of a stroke and of its points.
CanonicalFields == {"id", "type", "tool", "color", "size", "points", "text", "userId"}
Canonical(stroke) ==
    /\ DOMAIN stroke \subseteq CanonicalFields
    /\ \A i \in 1..Len(stroke.points) : stroke.points[i].extra = {}
    /\ "text" \in DOMAIN stroke =>
            stroke.tool.s = "text" /\ stroke.text.n <= 1000

\* C25: every stroke broadcast or persisted has the canonical fields only,
\* its points carry x and y only, its author is the user of the socket that
\* sent it, and it has a text only for the text tool, of at most 1000
\* characters.
C25_StrokesAreCanonical ==
    /\ \A e \in last.emits :
            e.ev \in {"draw", "erase"} =>
                Canonical(e.body.stroke) /\ e.body.stroke.userId = UserOf(last.by)
    /\ \A o \in pendingOps : o.op = "create" => Canonical(o.stroke)
    /\ \A d \in strokeDocs : Canonical(d.stroke) /\ d.stroke.userId \in Users

\* C26: a file:share with url, name and mimeType from a socket that holds a
\* room delivers exactly one file:shared, with the sender's user as sharer,
\* to every socket of the room's group and to the sender, and to nobody
\* else; without url, name or mimeType it delivers nothing.
C26_FileSharedOnceToAll ==
    [][\A c \in Conns, given \in BOOLEAN :
        FileShare(c, given) =>
            /\ (given /\ data[c].roomKey # NullKey) =>
                    /\ \A d \in Conns :
                            Cardinality({e \in last'.emits : e.to = d})
                                = IF data[c].roomKey \in inRooms[d] \/ d = c THEN 1 ELSE 0
                    /\ \A e \in last'.emits :
                            e.ev = "file:shared" /\ e.body.sharedBy = UserOf(c)
            /\ ~given => last'.emits = {}
            /\ last'.issued = {} /\ pendingOps' = pendingOps
    ]_vars

\* Both sockets are in room A and a file:share of one of them reached both.
C26_Witness ==
    /\ last.op = "file:share"
    /\ \A d \in Conns :
            /\ RoomKeyOf("A") \in inRooms[d]
            /\ \E e \in last.emits : e.to = d /\ e.ev = "file:shared"

\* Socket c has a join_room in flight; in SpecWrite it names room A and
\* succeeds, for both users are participants of A and A stays active.
Joining(c) == \E t \in tasks : t.kind = "join" /\ t.conn = c /\ ~Denied(t)

\* C27: a draw, erase or send_message that a socket sends after its
\* join_room of room A, while that join is still in flight, is not dropped
\* and is written under room A and no other.
C27_EventAfterJoinTakesEffect ==
    [][\A c \in Conns :
        (/\ Joining(c)
         /\ \/ Draw(c, "pen") \/ Erase(c, "pen")
            \/ SendMessage(c, Undefined, ChatText(1, 2))) =>
            /\ last'.issued # {}
            /\ \A o \in last'.issued : toUpperCase(o.roomId) = "A"
    ]_vars

\* The participant entries of a room that carry the host role.
HostEntries(room) ==
    {i \in 1..Len(room.participants) : room.participants[i].role = "host"}

OneHost ==
    \A r \in DOMAIN roomDocs :
        LET room == roomDocs[r]
        IN  /\ Cardinality(HostEntries(room)) <= 1
            /\ room.isActive =>
                    \E i \in HostEntries(room) :
                        /\ HostEntries(room) = {i}
                        /\ room.participants[i].user = room.host

Succession ==
    \A u \in RestUsers, r \in RestCodes :
        leaveRoom(u, r) /\ getRole(roomDocs[r], u) = "host" =>
            LET before == roomDocs[r].participants
                others == {i \in 1..Len(before) : before[i].user # u}
            IN  IF others = {}
                THEN ~roomDocs'[r].isActive
                ELSE \E i \in others :
                        /\ \A j \in others : before[i].joinedAt <= before[j].joinedAt
                        /\ roomDocs'[r].host = before[i].user
                        /\ getRole(roomDocs'[r], before[i].user) = "host"
                        /\ roomDocs'[r].isActive = roomDocs[r].isActive

\* C28: after any sequence of createRoom, joinRoom, leaveRoom and closeRoom
\* requests every active room has exactly one host entry and its host field
\* names that participant, no room has more than one host entry, a host that
\* leaves others behind is succeeded by the earliest-joined of them, and a
\* host that leaves alone leaves the room inactive.
C28_OneHostAndSuccession == []OneHost /\ [][Succession]_vars

\* u3 joined room A after u2, the host u1 left, and u2 is the host.
C28_Witness ==
    /\ roomDocs["A"].isActive
    /\ roomDocs["A"].host = "u2"
    /\ getRole(roomDocs["A"], "u2") = "host"
    /\ hasParticipant(roomDocs["A"], "u3")
    /\ ~hasParticipant(roomDocs["A"], "u1")
    /\ \E r \in DOMAIN roomDocs : ~roomDocs[r].isActive /\ roomDocs[r].participants = <<>>

\* C29: no payload of draw, erase, send_message, join_room or leave_room
\* makes its handler raise an exception: every event is accepted, dropped
\* silently or answered with an error to its sender.
C29_NoHandlerRaises == ~last.threw

\* A text that is not empty, starts and ends with no blank and has at most
\* 500 characters.
WellFormedText(text) ==
    /\ length(text) > 0
    /\ leadingBlanks(text) = 0
    /\ trailingBlanks(text) = 0
    /\ length(text) <= MAX_CHAT

\* C30: every chat_message text the server broadcasts and every Message text
\* it persists is non-empty, has no leading or trailing whitespace and has at
\* most 500 characters, whatever string was sent.
C30_ChatTextIsTrimmed ==
    /\ \A e \in last.emits : e.ev = "chat_message" => WellFormedText(e.body.text)
    /\ \A d \in messageDocs : WellFormedText(d.text)

\* C31: an undo or redo from a socket that holds a room delivers exactly one
\* event of that name, carrying the sender's user id, to every other socket
\* of the room's group, nothing to the sender or to anyone else, and changes
\* no Stroke document and no other state of the server.
C31_UndoRedoOnlyToPeers ==
    [][\A c \in Conns, ev \in {"undo", "redo"} :
        (Relay(c, ev) /\ data[c].roomKey # NullKey) =>
            /\ \A d \in Conns :
                    Cardinality({e \in last'.emits : e.to = d})
                        = IF data[c].roomKey \in inRooms[d] /\ d # c THEN 1 ELSE 0
            /\ \A e \in last'.emits : e.ev = ev /\ e.body = [userId |-> UserOf(c)]
            /\ last'.issued = {}
            /\ UNCHANGED <<roomDocs, connected, data, inRooms, tasks, strokeDocs,
                           pendingOps, clock, accepted, noticed, userDocs, sessions,
                           handshake, messageDocs, isSharing, announced>>
    ]_vars

\* Both sockets are in room A and an undo or redo of one reached the other.
C31_Witness ==
    /\ last.op \in {"undo", "redo"}
    /\ \A d \in Conns : RoomKeyOf("A") \in inRooms[d]
    /\ \E e \in last.emits : e.to # last.by /\ e.body.userId = UserOf(last.by)

\* C32: every Message write is issued under the room its sender holds, so
\* that the chat:history of a room replays only messages broadcast in it,
\* whatever roomId the send_message payload carries.
C32_MessageUnderSendersRoom ==
    \A o \in last.issued :
        o.op = "createMessage" =>
            toUpperCase(o.roomId) = toUpperCase(data[last.by].roomId)

\* The strokes of other users accepted for the room of code R and not
\* cleared since, stored or with their write still in flight.
AcceptedFromOthers(R, c) ==
    {x.createdAt : x \in {y \in strokeDocs \cup {o \in pendingOps : o.op = "create"} :
                              /\ toUpperCase(y.roomId) = R
                              /\ y.createdAt \in accepted[R]
                              /\ y.stroke.userId # UserOf(c)}}

\* C33: when a join has sent its canvas:restore, every stroke of another
\* user that was accepted for the room and not cleared has reached the
\* joining socket, in the restore or as a live draw or erase, also when the
\* write of the stroke was still in flight as the join read the replay.
C33_NoStrokeLostToJoiner ==
    Restored(last) =>
        AcceptedFromOthers(toUpperCase(last.arg), last.by)
            \subseteq (RestoredSet(last) \cup last.live)

\* The latest step delivered to socket d a user_joined about socket c.
JoinedNotice(c, d) ==
    /\ last.op = "join_room" /\ last.by = c
    /\ \E e \in last.emits : e.ev = "user_joined" /\ e.to = d
\* The latest step delivered to socket d a user_left about socket c.
LeftNotice(c, d) ==
    /\ last.by = c
    /\ \E e \in last.emits : e.ev = "user_left" /\ e.to = d
\* Socket c is connected and in the group of room A.
Member(c) == connected[c] /\ RoomKeyOf("A") \in inRooms[c]

\* C34: a user_joined about socket c delivered to a member d of room A is
\* followed, unless c stays in the room for good or d goes, by a user_left
\* about c delivered to d, also when c disconnects while its join_room is
\* still in flight.
C34_JoinedThenLeft ==
    \A c, d \in Conns :
        [](JoinedNotice(c, d) =>
                \/ []Member(c)
                \/ <>LeftNotice(c, d)
                \/ <>(~Member(d)))

\* Socket c was never in the group of room R: its user is no participant of
\* R, the participants do not change, and join_room admits participants only.
NeverJoined(c, R) ==
    /\ R \in DOMAIN roomDocs
    /\ ~hasParticipant(roomDocs[R], UserOf(c))
    /\ RoomKeyOf(R) \notin inRooms[c]

\* C35: a leave_room that names a room the sender never joined delivers no
\* user_left to the members of that room.
C35_LeftOnlyAboutMembers ==
    (last.op = "leave_room" /\ NeverJoined(last.by, last.arg)) =>
        \A e \in last.emits : e.ev # "user_left"

\* C36: a screen:request, screen:offer, screen:answer or screen:ice is
\* relayed only when its sender holds a room and is in its group, and only
\* to sockets that are in the group of that room.
C36_SignalingStaysInRoom ==
    (last.op \in RelayEvents /\ last.emits # {}) =>
        LET key == data[last.by].roomKey
        IN  /\ key # NullKey
            /\ key \in inRooms[last.by]
            /\ \A e \in last.emits : key \in inRooms[e.to]

\* With no handler in flight, a connected socket whose sharing flag is set
\* holds a room.
SharingHoldsRoom ==
    tasks = {} =>
        \A c \in Conns : (connected[c] /\ isSharing[c]) => data[c].roomKey # NullKey

\* A screen:stopped is delivered only for a socket whose sharing flag was set.
StoppedWasSharing ==
    (\E e \in last'.emits : e.ev = "screen:stopped") => isSharing[last'.by]

\* C37: a socket's sharing flag is set only while it is joined to the room
\* in which it announced screen:available, and a screen:stopped is delivered
\* in a room only for a socket that announced screen:available there and has
\* not stopped since.
C37_SharingOnlyInRoom == []SharingHoldsRoom /\ [][StoppedWasSharing]_vars

\* No room holds more participants than its maxParticipants or a user twice.
WithinCapacity ==
    \A r \in DOMAIN roomDocs :
        LET ps == roomDocs[r].participants
        IN  /\ Len(ps) <= roomDocs[r].maxParticipants
            /\ \A i, j \in 1..Len(ps) : ps[i].user = ps[j].user => i = j

\* A joinRoom of a user who is a participant changes nothing.
JoinAgainIsNoOp ==
    \A u \in RestUsers, r \in RestCodes :
        (joinRoomFind(u, r) /\ hasParticipant(roomDocs[r], u)) =>
            roomDocs' = roomDocs /\ tasks' = tasks

\* C38: a room's participants never exceed its maxParticipants and never
\* hold a user twice, also when joinRoom requests for the room overlap
\* between their read and their save; a joinRoom of a participant changes
\* nothing.
C38_CapacityAndNoDuplicates == []WithinCapacity /\ [][JoinAgainIsNoOp]_vars

====
